---- MODULE Spec2Model ----
(***************************************************************************)
(* A model of ia_provider: the Document Reader (importer.py), the Text     *)
(* Flattener (importer.py), the Style merge, the Markup Renderer and the   *)
(* Structured Renderer (exporter.py).                                      *)
(*                                                                         *)
(* Python strings are sequences of one-character strings, so that lower(), *)
(* strip(), startswith(), "in", split() and int() are computed and not     *)
(* assumed.  Python dicts are functions whose DOMAIN is the set of keys    *)
(* present.                                                                *)
(***************************************************************************)
EXTENDS Integers, Sequences, FiniteSets, TLC

VARIABLES
    \* extraire_texte_de_structure
    document_structure, texte_complet, texte_final, fl_pc,
    \* _analyser_contenu_block: the container, the index of the next child of
    \* the loop, the blocks emitted so far
    parent, rd_i, contenu_structure, rd_pc,
    \* _apply_style / _appliquer_style_run: the style table, the per-run style,
    \* the function called, style_combined and the font of the run
    sm_styles, sm_override, sm_name, sm_fn, sm_combined, sm_font, sm_pc,
    \* analyser_docx: the stream, the step that fails (if any), the locals
    \* corps_structure / header_structure / footer_structure, the value returned
    file_stream, az_fail, az_locals, az_result, az_pc,
    \* add_markdown: the markup text, what the conversion and parsing give for
    \* it, the style table, the document before the call and now, the index of
    \* the next element, the exception caught (if any)
    md_text, md_parsed, md_styles, md_doc0, md_doc, md_i, md_error, md_pc,
    \* generer_export_docx: whether reponse_structuree comes from the reader and
    \* the structure read, the block list, styles_interface, the document, the
    \* index of the next block, the stream returned, the body read back from it
    rn_read, rn_structure, rn_blocs, rn_styles, rn_doc, rn_i, rn_output, rn_reread, rn_pc,
    \* generer_export_docx_batch: the records, the style table in force, the two
    \* lists of the partition, the document, what was rendered so far, the
    \* index of the current loop
    resultats, bt_styles, succeeded, failed, bt_doc, bt_trace, bt_i, bt_pc

flVars == <<document_structure, texte_complet, texte_final, fl_pc>>
rdVars == <<parent, rd_i, contenu_structure, rd_pc>>
smVars == <<sm_styles, sm_override, sm_name, sm_fn, sm_combined, sm_font, sm_pc>>
azVars == <<file_stream, az_fail, az_locals, az_result, az_pc>>
mdVars == <<md_text, md_parsed, md_styles, md_doc0, md_doc, md_i, md_error, md_pc>>
rnVars == <<rn_read, rn_structure, rn_blocs, rn_styles, rn_doc, rn_i, rn_output,
           rn_reread, rn_pc>>
btVars == <<resultats, bt_styles, succeeded, failed, bt_doc, bt_trace, bt_i, bt_pc>>
notFl == <<rdVars, smVars, azVars, mdVars, rnVars, btVars>>
notRd == <<flVars, smVars, azVars, mdVars, rnVars, btVars>>
notSm == <<flVars, rdVars, azVars, mdVars, rnVars, btVars>>
notAz == <<flVars, rdVars, smVars, mdVars, rnVars, btVars>>
notMd == <<flVars, rdVars, smVars, azVars, rnVars, btVars>>
notRn == <<flVars, rdVars, smVars, azVars, mdVars, btVars>>
notBt == <<flVars, rdVars, smVars, azVars, mdVars, rnVars>>
vars == <<document_structure, texte_complet, texte_final, fl_pc,
          parent, rd_i, contenu_structure, rd_pc,
          sm_styles, sm_override, sm_name, sm_fn, sm_combined, sm_font, sm_pc,
          file_stream, az_fail, az_locals, az_result, az_pc,
          md_text, md_parsed, md_styles, md_doc0, md_doc, md_i, md_error, md_pc,
          rn_read, rn_structure, rn_blocs, rn_styles, rn_doc, rn_i, rn_output,
          rn_reread, rn_pc,
          resultats, bt_styles, succeeded, failed, bt_doc, bt_trace, bt_i, bt_pc>>

----------------------------------------------------------------------------
(* Python str and dict primitives *)

Whitespace == {" ", "\t", "\n"}

\* s.strip() is non-empty
StripNonEmpty(s) == \E i \in 1..Len(s) : s[i] \notin Whitespace

LowerMap ==
    ("A" :> "a") @@ ("B" :> "b") @@ ("C" :> "c") @@ ("D" :> "d") @@
    ("E" :> "e") @@ ("F" :> "f") @@ ("G" :> "g") @@ ("H" :> "h") @@
    ("I" :> "i") @@ ("J" :> "j") @@ ("K" :> "k") @@ ("L" :> "l") @@
    ("M" :> "m") @@ ("N" :> "n") @@ ("O" :> "o") @@ ("P" :> "p") @@
    ("Q" :> "q") @@ ("R" :> "r") @@ ("S" :> "s") @@ ("T" :> "t") @@
    ("U" :> "u") @@ ("V" :> "v") @@ ("W" :> "w") @@ ("X" :> "x") @@
    ("Y" :> "y") @@ ("Z" :> "z")

\* s.lower()
Lower(s) == [i \in 1..Len(s) |-> IF s[i] \in DOMAIN LowerMap THEN LowerMap[s[i]] ELSE s[i]]

\* s.startswith(p)
StartsWith(s, p) == Len(s) >= Len(p) /\ SubSeq(s, 1, Len(p)) = p

\* p in s
Contains(s, p) == \E i \in 0..(Len(s) - Len(p)) : SubSeq(s, i + 1, i + Len(p)) = p

\* Python values that may be of several types are tagged.
PyNone     == [t |-> "None"]
PyNum(n)   == [t |-> "num", v |-> n]
PyStr(str) == [t |-> "str", v |-> str]
PyBool(b)  == [t |-> "bool", v |-> b]
PyTuple(q) == [t |-> "tuple", v |-> q]

\* bool(v)
Truthy(v) ==
    CASE v.t = "None" -> FALSE
      [] v.t = "num" -> v.v # 0
      [] v.t = "bool" -> v.v
      [] OTHER -> v.v # <<>>

\* d.get(k, default)
Get(d, k, default) == IF k \in DOMAIN d THEN d[k] ELSE default

RECURSIVE ConcatAll(_)
\* "".join(parts)
ConcatAll(parts) ==
    IF parts = <<>> THEN <<>> ELSE Head(parts) \o ConcatAll(Tail(parts))

RECURSIVE JoinWith(_, _)
\* sep.join(parts)
JoinWith(parts, sep) ==
    IF parts = <<>> THEN <<>>
    ELSE IF Len(parts) = 1 THEN parts[1]
    ELSE parts[1] \o sep \o JoinWith(Tail(parts), sep)

\* All sequences over S of length 0..n
SeqsUpTo(S, n) == UNION {[1..k -> S] : k \in 0..n}

----------------------------------------------------------------------------
(* Block type tags of the document structure *)

T_paragraph == <<"p","a","r","a","g","r","a","p","h">>
T_list      == <<"l","i","s","t">>
T_table     == <<"t","a","b","l","e">>
T_inconnu   == <<"i","n","c","o","n","n","u">>
T_heading_1 == <<"h","e","a","d","i","n","g","_","1">>
T_heading_2 == <<"h","e","a","d","i","n","g","_","2">>

----------------------------------------------------------------------------
(* Text Flattener: extraire_texte_de_structure *)

RECURSIVE extraire_runs(_, _)
RECURSIVE extraire_rows(_, _)
RECURSIVE extraire_cells(_, _)
RECURSIVE extraire_items(_, _)

\* for item in items: if item.strip(): texte_complet.append(item)
extraire_items(items, acc) ==
    IF items = <<>> THEN acc
    ELSE extraire_items(Tail(items),
            IF StripNonEmpty(Head(items)) THEN Append(acc, Head(items)) ELSE acc)

\* for cell in row: extraire_runs(cell, niveau + 1)
extraire_cells(row, acc) ==
    IF row = <<>> THEN acc
    ELSE extraire_cells(Tail(row), extraire_runs(Head(row), acc))

\* for row in bloc.get("rows", []): ...
extraire_rows(rows, acc) ==
    IF rows = <<>> THEN acc
    ELSE extraire_rows(Tail(rows), extraire_cells(Head(rows), acc))

\* One iteration of the loop of extraire_runs over a block.
extraire_bloc(bloc, acc) ==
    LET type_bloc == Get(bloc, "type", T_inconnu)
        runs == Get(bloc, "runs", <<>>)
        paragraphe == ConcatAll([i \in 1..Len(runs) |-> Get(runs[i], "text", <<>>)])
    IN  IF type_bloc = T_table THEN extraire_rows(Get(bloc, "rows", <<>>), acc)
        ELSE IF type_bloc = T_list THEN extraire_items(Get(bloc, "items", <<>>), acc)
        ELSE IF runs # <<>> THEN
            (IF StripNonEmpty(paragraphe) THEN Append(acc, paragraphe) ELSE acc)
        ELSE acc

\* extraire_runs(blocs): texte_complet after the call, acc before it
extraire_runs(blocs, acc) ==
    IF blocs = <<>> THEN acc
    ELSE extraire_runs(Tail(blocs), extraire_bloc(Head(blocs), acc))

\* The partition a call of extraire_runs walks, in the order of the calls.
FlattenPartitionMutant(step) ==
    CASE step = 1 -> "body" [] step = 2 -> "header" [] OTHER -> "footer"

FlattenPartition(step) ==
    CASE step = 1 -> "header" [] step = 2 -> "body" [] OTHER -> "footer"

FlattenSeparator == <<"\n", "\n">>

Run(t) == [text |-> t]
P(t) == [type |-> T_paragraph, runs |-> <<Run(t)>>]

FlattenTable ==
    [type |-> T_table,
     rows |-> << << <<P(<<"c","1">>)>>, <<P(<<"c","2">>), P(<<"c","3">>)>> >>,
                 << <<[type |-> T_list, items |-> <<<<"i">>>>]>>,
                    <<[type |-> T_table, rows |-> << << <<P(<<"n">>)>> >> >>]>> >> >>]

FlattenBodyPool ==
    { P(<<"B">>),
      P(<<" ">>),
      [type |-> T_heading_1, runs |-> <<Run(<<"a">>), Run(<<" ">>), Run(<<"b">>)>>],
      [type |-> T_list, items |-> <<<<"x">>, <<" ">>, <<"y">>>>],
      [type |-> T_paragraph],
      [runs |-> <<Run(<<"u">>)>>],
      FlattenTable }

FlattenHeaderInputs ==
    { <<>>, <<P(<<"H">>)>>, <<P(<<"H">>), [type |-> T_list, items |-> <<<<"h">>>>]>> }

FlattenFooterInputs ==
    { <<>>, <<P(<<"F">>)>>, <<FlattenTable>> }

MaxBody == 2

\* The structures the flattener is applied to; a partition may be missing.
FlattenInputs ==
    { [header |-> h, body |-> b, footer |-> f] :
        h \in FlattenHeaderInputs, b \in SeqsUpTo(FlattenBodyPool, MaxBody),
        f \in FlattenFooterInputs }
    \cup { [body |-> b] : b \in SeqsUpTo(FlattenBodyPool, 1) }

FlattenInit ==
    /\ document_structure \in FlattenInputs
    /\ texte_complet = <<>>
    /\ texte_final = <<>>
    /\ fl_pc = 0

FlattenIdle ==
    /\ document_structure = [body |-> <<>>]
    /\ texte_complet = <<>>
    /\ texte_final = <<>>
    /\ fl_pc = 0

\* extraire_runs(document_structure.get(<partition>, [])): the three calls
FlattenWalk ==
    /\ fl_pc \in 0..2
    /\ texte_complet' =
         extraire_runs(Get(document_structure, FlattenPartition(fl_pc + 1), <<>>),
                       texte_complet)
    /\ fl_pc' = fl_pc + 1
    /\ UNCHANGED <<document_structure, texte_final>>
    /\ UNCHANGED notFl

\* texte_final = "\n\n".join(texte_complet); return texte_final
FlattenJoin ==
    /\ fl_pc = 3
    /\ texte_final' = JoinWith(texte_complet, FlattenSeparator)
    /\ fl_pc' = 4
    /\ UNCHANGED <<document_structure, texte_complet>>
    /\ UNCHANGED notFl

FlattenNext == FlattenWalk \/ FlattenJoin

----------------------------------------------------------------------------
(* The word-processor document the reader walks (python-docx objects).     *)
(* A container (document body, header, footer, cell) is a sequence of      *)
(* children: paragraphs, tables and other elements.  A paragraph has an    *)
(* optional style name, its runs, and the text of its hyperlinks, which    *)
(* Paragraph.text includes and Paragraph.runs omits.  A run has a text and *)
(* a font whose fields may be None.                                        *)

\* font.color is the hex string of font.color.rgb, or None.
NoFont ==
    [name |-> PyNone, size |-> PyNone, bold |-> PyNone, italic |-> PyNone,
     color |-> PyNone]
BoldFont ==
    [name |-> PyStr(<<"A","r","i","a","l">>), size |-> PyNum(12), bold |-> PyBool(TRUE),
     italic |-> PyNone, color |-> PyStr(<<"F","F","0","0","0","0">>)]

DocxRun(t, f) == [text |-> t, font |-> f]
DocxPara(style, runs) == [k |-> "p", style |-> style, runs |-> runs, link |-> <<>>]
DocxTable(rows) == [k |-> "tbl", rows |-> rows]
DocxOther == [k |-> "other"]

\* Paragraph.text
ParagraphText(block) ==
    ConcatAll([i \in 1..Len(block.runs) |-> block.runs[i].text]) \o block.link

DigitChar == <<"0","1","2","3","4","5","6","7","8","9">>

S_Normal      == <<"N","o","r","m","a","l">>
S_ListBullet  == <<"L","i","s","t"," ","B","u","l","l","e","t">>
S_ListNumber  == <<"L","i","s","t"," ","N","u","m","b","e","r">>
S_Liste       == <<"L","i","s","t","e"," ","a"," ","p","u","c","e","s">>
S_Title       == <<"T","i","t","l","e">>
S_Heading(n)  == <<"H","e","a","d","i","n","g"," ">> \o <<DigitChar[n + 1]>>
S_Titre(n)    == <<"T","i","t","r","e"," ">> \o <<DigitChar[n + 1]>>
S_HEADING_2   == <<"H","E","A","D","I","N","G"," ","2">>
S_Heading_10  == S_Heading(1) \o <<"0">>
S_MyHeading_1 == <<"M","y"," ">> \o S_Heading(1)

----------------------------------------------------------------------------
(* Document Reader: _extraire_style_run, _analyser_contenu_block *)

\* _extraire_style_run(run)
extraire_style_run(run) ==
    [text |-> run.text,
     style |-> [font_name |-> run.font.name,
                font_size |-> IF Truthy(run.font.size) THEN run.font.size ELSE PyNone,
                is_bold |-> run.font.bold,
                is_italic |-> run.font.italic,
                font_color_rgb |-> IF Truthy(run.font.color) THEN run.font.color
                                   ELSE PyNone]]

\* style_name = block.style.name.lower() if block.style and block.style.name else ""
StyleName(block) ==
    IF block.style # <<>> /\ block.style[1] # <<>> THEN Lower(block.style[1]) ELSE <<>>

\* "list" in style_name or "liste" in style_name
IsListStyle(style_name) ==
    Contains(style_name, <<"l","i","s","t">>) \/ Contains(style_name, <<"l","i","s","t","e">>)

\* A list item always starts a block of its own.
AjouterItemMutant(contenu, text) ==
    Append(contenu, [type |-> T_list, items |-> <<text>>])

\* if contenu_structure and contenu_structure[-1]["type"] == "list": append the
\* item to it; else: append a new list block
AjouterItem(contenu, text) ==
    IF contenu # <<>> /\ contenu[Len(contenu)].type = T_list
    THEN [contenu EXCEPT ![Len(contenu)].items = Append(@, text)]
    ELSE Append(contenu, [type |-> T_list, items |-> <<text>>])

\* block_type of a non-list paragraph
BlockType(style_name) ==
    IF StartsWith(style_name, <<"h","e","a","d","i","n","g"," ","1">>)
       \/ StartsWith(style_name, <<"t","i","t","r","e"," ","1">>)
    THEN T_heading_1
    ELSE IF StartsWith(style_name, <<"h","e","a","d","i","n","g"," ","2">>)
            \/ StartsWith(style_name, <<"t","i","t","r","e"," ","2">>)
    THEN T_heading_2
    ELSE T_paragraph

\* Every run is kept, blank or not.
RunsDataMutant(block) ==
    [i \in 1..Len(block.runs) |-> extraire_style_run(block.runs[i])]

\* runs_data = [_extraire_style_run(run) for run in block.runs if run.text.strip()]
RunsData(block) ==
    LET kept == SelectSeq(block.runs, LAMBDA r : StripNonEmpty(r.text))
    IN  [i \in 1..Len(kept) |-> extraire_style_run(kept[i])]

RECURSIVE analyser_contenu_block(_)
RECURSIVE AnalyserBlock(_, _)

\* One iteration of the loop over iter_block_items(parent): the blocks
\* emitted so far, after the child `block` has been handled.
AnalyserBlock(contenu, block) ==
    IF block.k = "p" THEN
        IF ~StripNonEmpty(ParagraphText(block)) THEN contenu
        ELSE IF IsListStyle(StyleName(block))
        THEN AjouterItem(contenu, ParagraphText(block))
        ELSE IF RunsData(block) # <<>>
        THEN Append(contenu, [type |-> BlockType(StyleName(block)),
                              runs |-> RunsData(block)])
        ELSE contenu
    ELSE IF block.k = "tbl" THEN
        LET table_data ==
              [r \in 1..Len(block.rows) |->
                 [c \in 1..Len(block.rows[r]) |->
                    analyser_contenu_block(block.rows[r][c])]]
        IN  IF table_data # <<>>
            THEN Append(contenu, [type |-> T_table, rows |-> table_data])
            ELSE contenu
    ELSE contenu

RECURSIVE AnalyserFrom(_, _)
AnalyserFrom(children, contenu) ==
    IF children = <<>> THEN contenu
    ELSE AnalyserFrom(Tail(children), AnalyserBlock(contenu, Head(children)))

\* _analyser_contenu_block(parent)
analyser_contenu_block(container) == AnalyserFrom(container, <<>>)

R(t) == DocxRun(t, NoFont)
pN      == DocxPara(<<S_Normal>>, <<R(<<"x">>)>>)
pBlank  == DocxPara(<<S_Normal>>, <<R(<<" ">>)>>)
pMixed  == DocxPara(<<>>, <<R(<<"y">>), R(<<" ">>), DocxRun(<<"z">>, BoldFont)>>)
pLa     == DocxPara(<<S_ListBullet>>, <<R(<<"a">>)>>)
pLb     == DocxPara(<<S_Liste>>, <<R(<<"b">>)>>)
pLc     == DocxPara(<<S_ListNumber>>, <<R(<<"c">>)>>)
pLBlank == DocxPara(<<S_ListBullet>>, <<R(<<" ">>)>>)
pH1     == DocxPara(<<S_Heading(1)>>, <<R(<<"h">>)>>)
pLink   == [k |-> "p", style |-> <<S_Normal>>, runs |-> <<R(<<" ">>)>>, link |-> <<"u">>]
tNoRows == DocxTable(<<>>)
tCells  == DocxTable(<< << <<pN>>, <<>> >>, << <<pBlank>>, <<pLa, pLb>> >> >>)
tNested == DocxTable(<< << <<pLBlank, tCells, tNoRows>> >> >>)

\* The children the containers of the model are made of.
ReaderPool ==
    { pN, pBlank, pMixed, pLa, pLb, pLc, pLBlank, pH1, pLink, DocxOther,
      tNoRows, tCells, tNested }

\* One paragraph per style name the classification tells apart.
StyledParagraphs ==
    { DocxPara(<<s>>, <<R(<<"t">>)>>) :
        s \in {S_Heading(n) : n \in 1..6} \cup {S_Titre(n) : n \in 1..6}
              \cup {S_HEADING_2, S_Heading_10, S_MyHeading_1, S_Title} }

MaxBlocks == 3

ReaderInputs ==
    SeqsUpTo(ReaderPool, MaxBlocks) \cup { <<p>> : p \in StyledParagraphs }

ReaderInit ==
    /\ parent \in ReaderInputs
    /\ rd_i = 1
    /\ contenu_structure = <<>>
    /\ rd_pc = "loop"

ReaderIdle ==
    /\ parent = <<>>
    /\ rd_i = 1
    /\ contenu_structure = <<>>
    /\ rd_pc = "idle"

\* for block in iter_block_items(parent): one iteration
ReaderLoop ==
    /\ rd_pc = "loop"
    /\ rd_i <= Len(parent)
    /\ contenu_structure' = AnalyserBlock(contenu_structure, parent[rd_i])
    /\ rd_i' = rd_i + 1
    /\ UNCHANGED <<parent, rd_pc>>
    /\ UNCHANGED notRd

\* return contenu_structure
ReaderReturn ==
    /\ rd_pc = "loop"
    /\ rd_i > Len(parent)
    /\ rd_pc' = "returned"
    /\ UNCHANGED <<parent, rd_i, contenu_structure>>
    /\ UNCHANGED notRd

ReaderNext == ReaderLoop \/ ReaderReturn

----------------------------------------------------------------------------
(* Python helpers of the renderers: int(), int(_, 16), find, slices, split *)

EmptyDict == [k \in {} |-> PyNone]

\* x or {}
OrEmpty(d) == IF d = PyNone THEN EmptyDict ELSE d

HexLower == <<"0","1","2","3","4","5","6","7","8","9","a","b","c","d","e","f">>
HexUpper == <<"0","1","2","3","4","5","6","7","8","9","A","B","C","D","E","F">>

\* The value of a digit in the given base, -1 when it is none.
DigitValue(c, base) ==
    LET l == Lower(<<c>>)[1]
        hits == {i \in 1..base : HexLower[i] = l}
    IN  IF hits = {} THEN -1 ELSE (CHOOSE i \in hits : TRUE) - 1

\* One step of int(): the value of the digits read so far and the next digit
ParseStep(rest, d, base) == IF rest = -1 \/ d = -1 THEN -1 ELSE rest * base + d

RECURSIVE ParseDigits(_, _)
\* int(s, base) of a string of digits; -1 stands for ValueError.
ParseDigits(s, base) ==
    IF s = <<>> THEN -1
    ELSE ParseStep(IF Len(s) = 1 THEN 0 ELSE ParseDigits(SubSeq(s, 1, Len(s) - 1), base),
                   DigitValue(s[Len(s)], base), base)

\* s.find(c) for a one-character c: 0-based, -1 when absent
Find(s, c) ==
    LET hits == {i \in 1..Len(s) : s[i] = c}
    IN  IF hits = {} THEN -1 ELSE (CHOOSE i \in hits : \A j \in hits : i <= j) - 1

\* s[a:b] with 0-based a >= 0 and b possibly negative
PySlice(s, a, b) ==
    LET e == IF b < 0 THEN Len(s) + b ELSE IF b > Len(s) THEN Len(s) ELSE b
    IN  SubSeq(s, a + 1, e)

RECURSIVE Split(_, _)
\* s.split(c) for a one-character c
Split(s, c) ==
    LET i == Find(s, c)
    IN  IF i = -1 THEN <<s>>
        ELSE <<SubSeq(s, 1, i)>> \o Split(SubSeq(s, i + 2, Len(s)), c)

RECURSIVE StripSpaces(_)
\* s.strip()
StripSpaces(s) ==
    IF s = <<>> THEN s
    ELSE IF s[1] \in Whitespace THEN StripSpaces(Tail(s))
    ELSE IF s[Len(s)] \in Whitespace THEN StripSpaces(SubSeq(s, 1, Len(s) - 1))
    ELSE s

RECURSIVE Remove0x(_)
\* s.replace("0x", "")
Remove0x(s) ==
    IF Len(s) < 2 THEN s
    ELSE IF s[1] = "0" /\ s[2] = "x" THEN Remove0x(SubSeq(s, 3, Len(s)))
    ELSE <<s[1]>> \o Remove0x(Tail(s))

\* RGBColor(r, g, b): the components when it is valid, <<>> when the call
\* raises (not three components, or one out of 0..255 or unparsed)
RGBColor(rgb) ==
    IF Len(rgb) = 3 /\ \A i \in 1..3 : rgb[i] \in 0..255 THEN rgb ELSE <<>>

\* RGBColor.from_string(hex)
RGBFromString(hex) ==
    RGBColor(<<ParseDigits(PySlice(hex, 0, 2), 16), ParseDigits(PySlice(hex, 2, 4), 16),
               ParseDigits(PySlice(hex, 4, Len(hex)), 16)>>)

\* str(RGBColor): "%02X%02X%02X"
RGBString(rgb) ==
    ConcatAll([i \in 1..3 |-> <<HexUpper[(rgb[i] \div 16) + 1], HexUpper[(rgb[i] % 16) + 1]>>])

S_RGBColor == <<"R","G","B","C","o","l","o","r">>

----------------------------------------------------------------------------
(* Style merge and application: _apply_style, _appliquer_style_run.        *)
(* A result is [raised, font]: the font of the run after the call, and     *)
(* whether the call raised.                                                *)

\* The base style wins.
MergeStyleMutant(base, override) ==
    [k \in DOMAIN base \cup DOMAIN override |->
        IF k \in DOMAIN base THEN base[k] ELSE override[k]]

\* {**base, **override}
MergeStyle(base, override) ==
    [k \in DOMAIN base \cup DOMAIN override |->
        IF k \in DOMAIN override THEN override[k] ELSE base[k]]

\* run.font.color.rgb = rgb; the font's colour is kept when the try block
\* raised (rgb = <<>>)
SetColor(font, rgb) ==
    IF rgb = <<>> THEN font ELSE [font EXCEPT !.color = PyStr(RGBString(rgb))]

\* The try block of _apply_style (51-57)
ApplyColor(font, color) ==
    SetColor(font, IF color.t = "str" THEN RGBFromString(color.v)
                   ELSE IF color.t = "tuple" THEN RGBColor(color.v) ELSE <<>>)

\* [int(p.strip().replace("0x", ""), 16) for p in parts]
LegacyParts(parts) ==
    [i \in 1..Len(parts) |-> ParseDigits(Remove0x(StripSpaces(parts[i])), 16)]

\* The legacy form "RGBColor(0x.., 0x.., 0x..)" (316-319)
LegacyRGB(v) ==
    RGBColor(LegacyParts(Split(PySlice(v, Find(v, "(") + 1, Find(v, ")")), ",")))

\* The try block of _appliquer_style_run (314-325)
AppliquerColor(font, color) ==
    SetColor(font, IF color.t = "str"
                   THEN (IF StartsWith(color.v, S_RGBColor) THEN LegacyRGB(color.v)
                         ELSE RGBFromString(color.v))
                   ELSE IF color.t = "tuple" THEN RGBColor(color.v) ELSE <<>>)

\* run.bold = style.get("is_bold", False); run.italic = style.get("is_italic", False)
SetBoldItalic(font, style) ==
    [font EXCEPT !.bold = Get(style, "is_bold", PyBool(FALSE)),
                 !.italic = Get(style, "is_italic", PyBool(FALSE))]

\* if font_name := style.get("font_name"): run.font.name = font_name
SetName(font, style) ==
    IF Truthy(Get(style, "font_name", PyNone))
    THEN [font EXCEPT !.name = style.font_name] ELSE font

\* if size := style.get("font_size"): run.font.size = Pt(size), which raises
\* for a size that is no number: [raised, font]
ApplySize(font, size) ==
    IF ~Truthy(size) THEN [raised |-> FALSE, font |-> font]
    ELSE IF size.t = "num" THEN [raised |-> FALSE, font |-> [font EXCEPT !.size = size]]
    ELSE [raised |-> TRUE, font |-> font]

\* try: run.font.size = Pt(int(size)) except Exception: pass
AppliquerSize(font, size) ==
    IF ~Truthy(size) THEN font
    ELSE IF size.t = "num" THEN [font EXCEPT !.size = size]
    ELSE IF size.t = "str" /\ ParseDigits(size.v, 10) # -1
    THEN [font EXCEPT !.size = PyNum(ParseDigits(size.v, 10))]
    ELSE font

\* if color := style.get("font_color_rgb"): the try block; bold and italic
ApplyRest(sized, style) ==
    IF sized.raised THEN [raised |-> TRUE, font |-> sized.font, style |-> style]
    ELSE [raised |-> FALSE,
          font |-> SetBoldItalic(
                     IF Truthy(Get(style, "font_color_rgb", PyNone))
                     THEN ApplyColor(sized.font, style.font_color_rgb) ELSE sized.font,
                     style),
          style |-> style]

\* _apply_style once `style` is merged (45-59)
ApplyMerged(font, style) ==
    ApplyRest(ApplySize(SetName(font, style), Get(style, "font_size", PyNone)), style)

\* MarkdownToDocxConverter._apply_style(run, style_overrides, style_name=...):
\* [raised, font, style]
apply_style(styles, font, style_overrides, style_name) ==
    ApplyMerged(font, MergeStyle(Get(styles, style_name, EmptyDict),
                                 OrEmpty(style_overrides)))

\* _appliquer_style_run once style_combined is merged (304-327)
AppliquerMerged(font, style_combined) ==
    [raised |-> FALSE,
     font |-> SetBoldItalic(
                IF Truthy(Get(style_combined, "font_color_rgb", PyNone))
                THEN AppliquerColor(
                       AppliquerSize(SetName(font, style_combined),
                                     Get(style_combined, "font_size", PyNone)),
                       style_combined.font_color_rgb)
                ELSE AppliquerSize(SetName(font, style_combined),
                                   Get(style_combined, "font_size", PyNone)),
                style_combined),
     style |-> style_combined]

\* _appliquer_style_run(run, style, base_style): [raised, font, style]
appliquer_style_run(font, style, base_style) ==
    AppliquerMerged(font, MergeStyle(base_style, OrEmpty(style)))

S_Arial == <<"A","r","i","a","l">>
S_abc == <<"a","b","c">>
S_FF0000 == <<"F","F","0","0","0","0">>
S_Legacy == S_RGBColor \o <<"(","0","x","f","f",","," ","0","x","0",","," ","0","x","1","0",")">>

AllStyleValues ==
    { PyNone, PyNum(12), PyNum(14), PyStr(S_abc), PyStr(S_Arial), PyStr(S_FF0000),
      PyStr(S_Legacy), PyBool(TRUE), PyBool(FALSE), PyTuple(<<0, 128, 255>>),
      PyTuple(<<0, 300, 0>>) }

\* The dicts whose keys are among those of `allowed`, each with a value it allows.
DictsOver(allowed) ==
    { d \in UNION {[D -> AllStyleValues] : D \in SUBSET DOMAIN allowed} :
        \A k \in DOMAIN d : d[k] \in allowed[k] }

BaseStyles ==
    DictsOver([font_size |-> {PyNum(12), PyStr(S_abc)},
               is_bold |-> {PyBool(FALSE), PyBool(TRUE)},
               font_name |-> {PyStr(S_Arial)},
               font_color_rgb |-> {PyStr(S_FF0000)}])

\* The per-run styles the reader emits: every field is there, None when the
\* font does not resolve it
ReaderStyles ==
    { extraire_style_run(DocxRun(<<"x">>, f)).style :
        f \in {NoFont, BoldFont, [NoFont EXCEPT !.italic = PyBool(TRUE)]} }

\* Per-run styles: None (no style), or a dict, whose fields may be None
OverrideStyles ==
    {PyNone} \cup ReaderStyles \cup
    DictsOver([font_size |-> {PyNum(14), PyNone},
               is_bold |-> {PyBool(TRUE), PyNone},
               font_color_rgb |-> {PyStr(S_FF0000), PyStr(S_abc), PyStr(S_Legacy),
                                   PyTuple(<<0, 128, 255>>), PyTuple(<<0, 300, 0>>)}])

StyleTables ==
    {EmptyDict} \cup {[response |-> b] : b \in BaseStyles}
    \cup {[response |-> [is_italic |-> PyBool(TRUE)], prompt |-> b] : b \in BaseStyles}

StyleInit ==
    /\ sm_styles \in StyleTables
    /\ sm_override \in OverrideStyles
    /\ sm_name \in {"response", "prompt"}
    /\ sm_fn \in {"_apply_style", "_appliquer_style_run"}
    /\ sm_fn = "_appliquer_style_run" => sm_name = "response"
    /\ sm_combined = EmptyDict
    /\ sm_font = NoFont
    /\ sm_pc = "call"

StyleIdle ==
    /\ sm_styles = EmptyDict
    /\ sm_override = PyNone
    /\ sm_name = "response"
    /\ sm_fn = "none"
    /\ sm_combined = EmptyDict
    /\ sm_font = NoFont
    /\ sm_pc = "idle"

\* The run and style_combined after a call
StyleResult(r) ==
    /\ sm_combined' = r.style
    /\ sm_font' = r.font
    /\ sm_pc' = IF r.raised THEN "raised" ELSE "applied"

\* A call of converter._apply_style(run, overrides, style_name=name) on a new run
ApplyStyle ==
    /\ sm_pc = "call" /\ sm_fn = "_apply_style"
    /\ StyleResult(apply_style(sm_styles, sm_font, sm_override, sm_name))
    /\ UNCHANGED <<sm_styles, sm_override, sm_name, sm_fn>>
    /\ UNCHANGED notSm

\* A call of _appliquer_style_run(run, style, styles_interface.get("response", {}))
AppliquerStyleRun ==
    /\ sm_pc = "call" /\ sm_fn = "_appliquer_style_run"
    /\ StyleResult(appliquer_style_run(sm_font, sm_override,
                                       Get(sm_styles, "response", EmptyDict)))
    /\ UNCHANGED <<sm_styles, sm_override, sm_name, sm_fn>>
    /\ UNCHANGED notSm

StyleNext == ApplyStyle \/ AppliquerStyleRun

----------------------------------------------------------------------------
(* Document Reader entry point: analyser_docx.                             *)
(* A stream is a package holding a document (body, sections) or not a      *)
(* package; az_fail names the step at which the library raises, if any,    *)
(* and the class of the exception.                                         *)

EmptyStructure == [header |-> <<>>, body |-> <<>>, footer |-> <<>>]

\* The handler returns what was extracted before the failure.
AnalyserExceptMutant(kind, locals) ==
    IF kind \in {"OpcError", "Exception"}
    THEN [pc |-> "returned", result |-> locals]
    ELSE [pc |-> "raised", result |-> EmptyStructure]

\* except OpcError / except Exception: log, return the empty structure
AnalyserExcept(kind, locals) ==
    IF kind \in {"OpcError", "Exception"}
    THEN [pc |-> "returned", result |-> EmptyStructure]
    ELSE [pc |-> "raised", result |-> EmptyStructure]

\* The exception, if any, that the step `at` raises.
AnalyserFailure(at) ==
    IF at = "open" /\ ~file_stream.package THEN "OpcError"
    ELSE IF az_fail.at = at THEN az_fail.kind
    ELSE "none"

AnalyserBodies == { <<>>, <<pN>>, <<pLa, pBlank, pLb>>, <<tCells, pH1>>, <<pBlank>> }
AnalyserSections ==
    { <<>> } \cup
    { <<[header |-> h, footer |-> f]>> \o rest :
        h \in {<<>>, <<pH1>>, <<pMixed, tNested>>}, f \in {<<>>, <<pN>>, <<pLc>>},
        rest \in {<<>>, <<[header |-> <<pN>>, footer |-> <<pN>>]>>} }

AnalyserStreams ==
    { [package |-> FALSE] } \cup
    { [package |-> TRUE, body |-> b, sections |-> sec] :
        b \in AnalyserBodies, sec \in AnalyserSections }

AnalyserFailures ==
    { [at |-> "none", kind |-> "none"] } \cup
    { [at |-> a, kind |-> k] :
        a \in {"seek", "open", "body", "header", "footer"},
        k \in {"OpcError", "Exception"} }

AnalyserInit ==
    /\ file_stream \in AnalyserStreams
    /\ az_fail \in AnalyserFailures
    /\ az_locals = EmptyStructure
    /\ az_result = EmptyStructure
    /\ az_pc = "start"

AnalyserIdle ==
    /\ file_stream = [package |-> FALSE]
    /\ az_fail = [at |-> "none", kind |-> "none"]
    /\ az_locals = EmptyStructure
    /\ az_result = EmptyStructure
    /\ az_pc = "idle"

\* The step `at` raises: the except clause of analyser_docx runs.
AnalyserCatch(at) ==
    /\ az_result' = AnalyserExcept(AnalyserFailure(at), az_locals).result
    /\ az_pc' = AnalyserExcept(AnalyserFailure(at), az_locals).pc
    /\ UNCHANGED az_locals

\* file_stream.seek(0); document = docx.Document(file_stream)
AnalyserOpen ==
    /\ az_pc = "start"
    /\ IF AnalyserFailure("seek") # "none" THEN AnalyserCatch("seek")
       ELSE IF AnalyserFailure("open") # "none" THEN AnalyserCatch("open")
       ELSE az_pc' = "opened" /\ UNCHANGED <<az_locals, az_result>>
    /\ UNCHANGED <<file_stream, az_fail>>
    /\ UNCHANGED notAz

\* corps_structure = _analyser_contenu_block(document)
AnalyserBody ==
    /\ az_pc = "opened"
    /\ IF AnalyserFailure("body") # "none" THEN AnalyserCatch("body")
       ELSE /\ az_locals' = [az_locals EXCEPT
                                !.body = analyser_contenu_block(file_stream.body)]
            /\ az_pc' = "body"
            /\ UNCHANGED az_result
    /\ UNCHANGED <<file_stream, az_fail>>
    /\ UNCHANGED notAz

\* if document.sections: header_structure = _analyser_contenu_block(section.header)
AnalyserHeader ==
    /\ az_pc = "body"
    /\ IF file_stream.sections = <<>>
       THEN az_pc' = "footer" /\ UNCHANGED <<az_locals, az_result>>
       ELSE IF AnalyserFailure("header") # "none" THEN AnalyserCatch("header")
       ELSE /\ az_locals' = [az_locals EXCEPT
                !.header = analyser_contenu_block(file_stream.sections[1].header)]
            /\ az_pc' = "header"
            /\ UNCHANGED az_result
    /\ UNCHANGED <<file_stream, az_fail>>
    /\ UNCHANGED notAz

\* footer_structure = _analyser_contenu_block(section.footer)
AnalyserFooter ==
    /\ az_pc = "header"
    /\ IF AnalyserFailure("footer") # "none" THEN AnalyserCatch("footer")
       ELSE /\ az_locals' = [az_locals EXCEPT
                !.footer = analyser_contenu_block(file_stream.sections[1].footer)]
            /\ az_pc' = "footer"
            /\ UNCHANGED az_result
    /\ UNCHANGED <<file_stream, az_fail>>
    /\ UNCHANGED notAz

\* return document_complet, None
AnalyserReturn ==
    /\ az_pc = "footer"
    /\ az_result' = az_locals
    /\ az_pc' = "returned"
    /\ UNCHANGED <<file_stream, az_fail, az_locals>>
    /\ UNCHANGED notAz

AnalyserNext ==
    AnalyserOpen \/ AnalyserBody \/ AnalyserHeader \/ AnalyserFooter \/ AnalyserReturn

----------------------------------------------------------------------------
(* The document a renderer builds (python-docx): a sequence of paragraphs  *)
(* and tables, of the shape the reader walks.                              *)

\* document.add_paragraph(style=...) with no text
NewParagraph(style) == DocxPara(<<style>>, <<>>)

\* document.add_paragraph(text, style=...): the run is added when text is truthy
TextParagraph(text, style) ==
    DocxPara(<<style>>, IF text = <<>> THEN <<>> ELSE <<DocxRun(text, NoFont)>>)

\* document.add_table(rows, cols): every cell holds one empty paragraph
NewTable(rows, cols) ==
    DocxTable([r \in 1..rows |-> [c \in 1..cols |-> <<NewParagraph(S_Normal)>>]])

\* Table.cell(r_idx, c_idx), 0-based: the cells are indexed row-major by
\* c_idx + r_idx * cols; <<>> stands for IndexError, else <<row, column>> (1-based)
TableCell(rows, cols, r_idx, c_idx) ==
    LET cell_idx == c_idx + r_idx * cols
    IN  IF cell_idx >= rows * cols THEN <<>>
        ELSE <<(cell_idx \div cols) + 1, (cell_idx % cols) + 1>>

----------------------------------------------------------------------------
(* Markup Renderer: MarkdownToDocxConverter.                               *)
(* The HTML tree is what BeautifulSoup gives: a NavigableString is a text, *)
(* a Tag has a name, children and, for <a>, an href.                       *)

NavStr(t) == [k |-> "str", text |-> t]
Tag(name, children) == [k |-> "tag", name |-> name, children |-> children, href |-> PyNone]

N_p == <<"p">>
N_li == <<"l","i">>
N_ul == <<"u","l">>
N_ol == <<"o","l">>
N_pre == <<"p","r","e">>
N_table == <<"t","a","b","l","e">>
N_tr == <<"t","r">>
N_td == <<"t","d">>
N_th == <<"t","h">>
N_a == <<"a">>
N_code == <<"c","o","d","e">>
N_div == <<"d","i","v">>
N_h(n) == <<"h", DigitChar[n + 1]>>
S_Consolas == <<"C","o","n","s","o","l","a","s">>

RECURSIVE GetText(_)
\* node.get_text(): the strings under the node, concatenated
GetText(node) ==
    IF node.k = "str" THEN node.text
    ELSE ConcatAll([i \in 1..Len(node.children) |-> GetText(node.children[i])])

RECURSIVE GetTextStripped(_)
\* node.get_text(strip=True): each string stripped
GetTextStripped(node) ==
    IF node.k = "str" THEN StripSpaces(node.text)
    ELSE ConcatAll([i \in 1..Len(node.children) |-> GetTextStripped(node.children[i])])

\* elem.find_all(names, recursive=False)
FindAllDirect(elem, names) ==
    SelectSeq(elem.children, LAMBDA c : c.k = "tag" /\ c.name \in names)

\* The paragraph under construction [runs, link, raised] once the run of
\* `text` is styled (r is what _apply_style gave): the font name is fixed
\* afterwards when `mono`; with `hyperlink` the run is the one _add_hyperlink
\* puts inside a w:hyperlink element, which is not among paragraph.runs.
StyledRun(acc, text, r, mono, hyperlink) ==
    IF hyperlink THEN [acc EXCEPT !.link = @ \o text, !.raised = r.raised]
    ELSE [acc EXCEPT !.raised = r.raised,
                     !.runs = Append(@, DocxRun(text,
                                IF mono /\ ~r.raised
                                THEN [r.font EXCEPT !.name = PyStr(S_Consolas)]
                                ELSE r.font))]

\* run = paragraph.add_run(text); self._apply_style(run, overrides)
AddStyledRun(styles, acc, text, overrides, mono, hyperlink) ==
    StyledRun(acc, text, apply_style(styles, NoFont, overrides, "response"),
              mono, hyperlink)

RECURSIVE add_inline(_, _, _)
RECURSIVE AddInlineChildren(_, _, _)

\* One iteration of "for child in node.children" of _add_inline (72-98)
AddInlineChild(styles, acc, child) ==
    LET name == IF child.k = "str" THEN <<>> ELSE child.name
        text == IF child.k = "str" THEN child.text ELSE GetText(child)
        overrides ==
            IF name \in {<<"s","t","r","o","n","g">>, <<"b">>} THEN [is_bold |-> PyBool(TRUE)]
            ELSE IF name \in {<<"e","m">>, <<"i">>} THEN [is_italic |-> PyBool(TRUE)]
            ELSE PyNone
        inline == {<<"s","t","r","o","n","g">>, <<"b">>, <<"e","m">>, <<"i">>, N_code, N_a}
    IN  IF child.k = "tag" /\ name \notin inline THEN add_inline(styles, acc, child)
        ELSE IF child.k = "str" /\ text = <<>> THEN acc
        ELSE AddStyledRun(styles, acc, text, overrides, name = N_code,
                          name = N_a /\ Truthy(child.href))

AddInlineChildren(styles, acc, children) ==
    IF children = <<>> \/ acc.raised THEN acc
    ELSE AddInlineChildren(styles, AddInlineChild(styles, acc, Head(children)),
                           Tail(children))

\* MarkdownToDocxConverter._add_inline(paragraph, node): a string node is
\* handled as a string child is (64-69 and 72-76 are the same code)
add_inline(styles, acc, node) ==
    AddInlineChildren(styles, acc, IF node.k = "str" THEN <<node>> ELSE node.children)

\* The paragraph of the given style whose runs _add_inline left in acc
FilledParagraph(style, acc) ==
    [para |-> [k |-> "p", style |-> <<style>>, runs |-> acc.runs, link |-> acc.link],
     raised |-> acc.raised]

\* A paragraph of the given style filled by _add_inline(paragraph, node):
\* [para, raised]
InlineParagraph(styles, style, node) ==
    FilledParagraph(style,
        add_inline(styles, [runs |-> <<>>, link |-> <<>>, raised |-> FALSE], node))

\* The table with the paragraph of the cell at `at` as _add_inline left it
FilledCell(table, at, acc) ==
    [table |-> [table EXCEPT !.rows[at[1]][at[2]][1].runs = acc.runs,
                             !.rows[at[1]][at[2]][1].link = acc.link],
     raised |-> acc.raised]

\* self._add_inline(table.cell(r_idx, c_idx).paragraphs[0], cell): [table, raised]
FillCell(styles, table, at, cell) ==
    IF at = <<>> THEN [table |-> table, raised |-> TRUE]
    ELSE FilledCell(table, at,
            add_inline(styles, [runs |-> table.rows[at[1]][at[2]][1].runs,
                                link |-> table.rows[at[1]][at[2]][1].link,
                                raised |-> FALSE], cell))

RECURSIVE FillCells(_, _, _, _, _, _)
RECURSIVE FillCellsFrom(_, _, _, _, _, _)

\* The rest of the loops once the cell before (r_idx, c_idx) is filled
FillCellsFrom(styles, res, rows, cols, r_idx, c_idx) ==
    IF res.raised THEN res ELSE FillCells(styles, res.table, rows, cols, r_idx, c_idx)

\* The loops over the rows and cells of an HTML table (175-179), from the
\* cell c_idx of the row r_idx on: [table, raised]
FillCells(styles, table, rows, cols, r_idx, c_idx) ==
    IF r_idx >= Len(rows) THEN [table |-> table, raised |-> FALSE]
    ELSE IF c_idx >= Len(FindAllDirect(rows[r_idx + 1], {N_th, N_td}))
    THEN FillCells(styles, table, rows, cols, r_idx + 1, 0)
    ELSE FillCellsFrom(styles,
            FillCell(styles, table, TableCell(Len(rows), cols, r_idx, c_idx),
                     FindAllDirect(rows[r_idx + 1], {N_th, N_td})[c_idx + 1]),
            rows, cols, r_idx, c_idx + 1)

RECURSIVE process_element(_, _, _, _)
RECURSIVE ProcessEach(_, _, _, _)
RECURSIVE ProcessNested(_, _, _)

\* for child in elem.find_all(["ul", "ol"], recursive=False):
\*     self._process_element(child, "List Bullet" if child.name == "ul" else "List Number")
ProcessNested(styles, res, lists) ==
    IF lists = <<>> \/ res.raised THEN res
    ELSE ProcessNested(styles,
            process_element(styles, res.doc, Head(lists),
                            IF Head(lists).name = N_ul THEN <<S_ListBullet>>
                            ELSE <<S_ListNumber>>),
            Tail(lists))

\* for e in elems: self._process_element(e, list_style), until one raises
ProcessEach(styles, res, elems, list_style) ==
    IF elems = <<>> \/ res.raised THEN res
    ELSE ProcessEach(styles, process_element(styles, res.doc, Head(elems), list_style),
                     Tail(elems), list_style)

\* The style of the paragraph of a <p>, <li> or string: list_style or the default
ParagraphStyle(list_style) == IF list_style = <<>> THEN S_Normal ELSE list_style[1]

\* The document with the block a branch of _process_element added
Added(doc, block, raised) == [doc |-> Append(doc, block), raised |-> raised]

\* The document with the table the loops filled
AddedTable(doc, r) == Added(doc, r.table, r.raised)

\* table = self.doc.add_table(rows=len(rows), cols=cols) and the loops (172-179)
ProcessTable(styles, doc, rows, cols) ==
    AddedTable(doc, FillCells(styles, NewTable(Len(rows), cols), rows, cols, 0, 0))

\* The document with the paragraph _add_inline filled, then the nested lists
AddedParagraph(styles, doc, r, lists) ==
    ProcessNested(styles, Added(doc, r.para, r.raised), lists)

\* p = self.doc.add_paragraph(style=...); self._add_inline(p, node), then the
\* nested lists of a <p> or <li>
ProcessParagraph(styles, doc, style, node, lists) ==
    AddedParagraph(styles, doc, InlineParagraph(styles, style, node), lists)

\* MarkdownToDocxConverter._process_element(elem, list_style): [doc, raised];
\* list_style is <<>> for None.  The paragraph of a string, <p>, <li>,
\* heading, <pre> or other element is built by one _add_inline; for <pre>
\* the run of the stripped text with the Consolas font is the run _add_inline
\* makes of a <code> child.
process_element(styles, doc, elem, list_style) ==
    LET name == IF elem.k = "str" THEN <<>> ELSE elem.name
        headings == {N_h(n) : n \in 1..6}
        rows == FindAllDirect(elem, {N_tr})
        \* the branch emits nothing
        nothing ==
            \/ elem.k = "str" /\ StripSpaces(elem.text) = <<>>
            \/ name = N_table /\ rows = <<>>
            \/ elem.k = "tag" /\ name \notin ({N_p, N_li, N_pre, N_table} \cup headings)
               /\ GetTextStripped(elem) = <<>>
        style ==
            IF elem.k = "str" \/ name \in {N_p, N_li} THEN ParagraphStyle(list_style)
            ELSE IF name \in headings THEN S_Heading(ParseDigits(<<name[2]>>, 10))
            ELSE S_Normal
        node ==
            IF elem.k = "str" THEN NavStr(StripSpaces(elem.text))
            ELSE IF name = N_pre
            THEN Tag(N_div, <<Tag(N_code, <<NavStr(StripSpaces(GetText(elem)))>>)>>)
            ELSE elem
    IN  IF name \in {N_ul, N_ol}
        THEN ProcessEach(styles, [doc |-> doc, raised |-> FALSE],
                         FindAllDirect(elem, {N_li}),
                         IF name = N_ul THEN <<S_ListBullet>> ELSE <<S_ListNumber>>)
        ELSE IF nothing THEN [doc |-> doc, raised |-> FALSE]
        ELSE IF name = N_table
        THEN ProcessTable(styles, doc, rows, Len(FindAllDirect(rows[1], {N_th, N_td})))
        ELSE ProcessParagraph(styles, doc, style, node,
                              IF name \in {N_p, N_li}
                              THEN FindAllDirect(elem, {N_ul, N_ol}) ELSE <<>>)

S_Warning == <<"[","f","o","r","m","a","t","a","g","e"," ","e","c","h","o","u","e",":">>
S_787878 == <<"7","8","7","8","7","8">>

\* str(e) of the exception caught by add_markdown
ErrorMessage(error) == IF error = "convert" THEN <<"c">> ELSE <<"r">>

\* The except branch of add_markdown (200-208): the italic grey warning
\* paragraph, then a paragraph with the original text
Fallback(doc, text, error) ==
    doc \o << DocxPara(<<S_Normal>>,
                 <<DocxRun(S_Warning \o ErrorMessage(error) \o <<"]">>,
                           [NoFont EXCEPT !.italic = PyBool(TRUE),
                                          !.color = PyStr(S_787878)])>>),
              TextParagraph(text, S_Normal) >>

\* soup.body.find_all(recursive=False): the tags directly under <body>
BodyElements(parsed) == SelectSeq(parsed.body.children, LAMBDA c : c.k = "tag")

\* The document when the loop over the elements has ended or raised
Rendered(r, text) == IF r.raised THEN Fallback(r.doc, text, "render") ELSE r.doc

\* MarkdownToDocxConverter.add_markdown(text): the document after the call
add_markdown(styles, doc, text, parsed) ==
    IF text = <<>> THEN doc
    ELSE IF parsed.fails THEN Fallback(doc, text, "convert")
    ELSE IF parsed.body = PyNone THEN doc
    ELSE Rendered(ProcessEach(styles, [doc |-> doc, raised |-> FALSE],
                              BodyElements(parsed), <<>>), text)

Td(t) == Tag(N_td, <<NavStr(t)>>)
eP == Tag(N_p, <<NavStr(<<"t"," ">>), Tag(<<"b">>, <<NavStr(<<"b">>)>>)>>)
eH2 == Tag(N_h(2), <<NavStr(<<"h">>)>>)
eUL ==
    Tag(N_ul, << Tag(N_li, <<NavStr(<<"i">>)>>), NavStr(<<"\n">>),
                 Tag(N_li, <<NavStr(<<"j">>),
                             Tag(N_ol, <<Tag(N_li, <<NavStr(<<"k">>)>>)>>)>>) >>)
eTable == Tag(N_table, << Tag(N_tr, <<Td(<<"a">>), Td(<<"b">>)>>), Tag(N_tr, <<Td(<<"c">>)>>) >>)
eJagged == Tag(N_table, << Tag(N_tr, <<Td(<<"a">>)>>), Tag(N_tr, <<Td(<<"b">>), Td(<<"c">>)>>) >>)
eTbody == Tag(N_table, << Tag(<<"t","b","o","d","y">>, <<Tag(N_tr, <<Td(<<"a">>)>>)>>) >>)
ePre == Tag(N_pre, <<Tag(N_code, <<NavStr(<<"x","\n">>)>>)>>)
eLink ==
    Tag(N_div, << [k |-> "tag", name |-> N_a, children |-> <<NavStr(<<"u">>)>>,
                   href |-> PyStr(<<"h","t","t","p">>)],
                  Tag(N_a, <<NavStr(<<"v">>)>>) >>)
eBlank == Tag(N_div, <<NavStr(<<" ">>)>>)

MarkupElements == { eP, eH2, eUL, eTable, eJagged, eTbody, ePre, eLink, eBlank }

MaxElements == 2

\* What conversion and parsing give: an exception, no <body>, or a <body>
\* whose children are elements and strings.
ParsedInputs ==
    { [fails |-> TRUE, body |-> PyNone], [fails |-> FALSE, body |-> PyNone] } \cup
    { [fails |-> FALSE, body |-> Tag(<<"b","o","d","y">>, c)] :
        c \in SeqsUpTo(MarkupElements, MaxElements)
              \cup {<<NavStr(<<"\n">>), eP, NavStr(<<"\n">>)>>} }

S_Markup == <<"#"," ","t">>

MarkdownStyles ==
    { EmptyDict,
      [response |-> [font_size |-> PyNum(12), font_name |-> PyStr(S_Arial)]],
      [response |-> [font_size |-> PyStr(S_abc)]] }

MarkdownInit ==
    /\ md_text \in {<<>>, S_Markup}
    /\ md_parsed \in ParsedInputs
    /\ md_text = <<>> => md_parsed = [fails |-> FALSE, body |-> PyNone]
    /\ md_styles \in MarkdownStyles
    /\ md_doc0 \in {<<>>, <<pN>>}
    /\ md_doc = md_doc0
    /\ md_i = 1
    /\ md_error = "none"
    /\ md_pc = "call"

MarkdownIdle ==
    /\ md_text = <<>>
    /\ md_parsed = [fails |-> FALSE, body |-> PyNone]
    /\ md_styles = EmptyDict
    /\ md_doc0 = <<>>
    /\ md_doc = <<>>
    /\ md_i = 1
    /\ md_error = "none"
    /\ md_pc = "idle"

\* if not text: return; conversion and parsing; if soup.body: ...
MarkdownConvert ==
    /\ md_pc = "call"
    /\ IF md_text = <<>> THEN md_pc' = "returned" /\ UNCHANGED <<md_doc, md_error>>
       ELSE IF md_parsed.fails
       THEN /\ md_doc' = Fallback(md_doc, md_text, "convert")
            /\ md_error' = "convert"
            /\ md_pc' = "returned"
       ELSE IF md_parsed.body = PyNone
       THEN md_pc' = "returned" /\ UNCHANGED <<md_doc, md_error>>
       ELSE md_pc' = "loop" /\ UNCHANGED <<md_doc, md_error>>
    /\ UNCHANGED <<md_text, md_parsed, md_styles, md_doc0, md_i>>
    /\ UNCHANGED notMd

\* The state after _process_element returned or raised
MarkdownStep(r) ==
    IF r.raised
    THEN /\ md_doc' = Fallback(r.doc, md_text, "render")
         /\ md_error' = "render"
         /\ md_pc' = "returned"
         /\ UNCHANGED md_i
    ELSE /\ md_doc' = r.doc
         /\ md_i' = md_i + 1
         /\ UNCHANGED <<md_error, md_pc>>

\* self._process_element(elem) for the next element; when it raises, the
\* except branch runs on the document as the element left it
MarkdownElement ==
    /\ md_pc = "loop"
    /\ md_i <= Len(BodyElements(md_parsed))
    /\ MarkdownStep(process_element(md_styles, md_doc, BodyElements(md_parsed)[md_i], <<>>))
    /\ UNCHANGED <<md_text, md_parsed, md_styles, md_doc0>>
    /\ UNCHANGED notMd

\* The loop ends: add_markdown returns.
MarkdownReturn ==
    /\ md_pc = "loop"
    /\ md_i > Len(BodyElements(md_parsed))
    /\ md_pc' = "returned"
    /\ UNCHANGED <<md_text, md_parsed, md_styles, md_doc0, md_doc, md_i, md_error>>
    /\ UNCHANGED notMd

MarkdownNext == MarkdownConvert \/ MarkdownElement \/ MarkdownReturn

----------------------------------------------------------------------------
(* Structured Renderer: generer_export_docx.                               *)
(* A cell of a table block is a Python value: a str, or the list of blocks *)
(* the reader puts there.                                                  *)

PyList(q) == [t |-> "list", v |-> q]

T_heading_3  == <<"h","e","a","d","i","n","g","_","3">>
T_heading_10 == <<"h","e","a","d","i","n","g","_","1","0">>
T_heading_x  == <<"h","e","a","d","i","n","g","_","x">>
T_heading    == <<"h","e","a","d","i","n","g">>

\* The block list the reader returned, as a renderer receives it: the cells
\* of its table blocks are lists
ReaderBlocs(structure) ==
    [i \in 1..Len(structure) |->
        IF structure[i].type = T_table
        THEN [type |-> T_table,
              rows |-> [r \in 1..Len(structure[i].rows) |->
                          [c \in 1..Len(structure[i].rows[r]) |->
                              PyList(structure[i].rows[r][c])]]]
        ELSE structure[i]]

\* parts[-1]
Last(parts) == parts[Len(parts)]

\* int(type_bloc.split("_")[-1]); -1 stands for ValueError
LevelOf(type_bloc) == ParseDigits(Last(Split(type_bloc, "_")), 10)

\* try: level = int(...) except Exception: level = 1
LevelOrOne(level) == IF level = -1 THEN 1 ELSE level

\* document.add_heading(level=level) raises ValueError unless 0 <= level <= 9;
\* the style of the paragraph it adds otherwise
HeadingRaises(level) == level < 0 \/ level > 9
HeadingStyle(level) == IF level = 0 THEN S_Title ELSE S_Heading(level)

\* run = p.add_run(run_data.get("text", ""));
\* _appliquer_style_run(run, run_data.get("style"), base_style)
RenderRun(base_style, run_data) ==
    DocxRun(Get(run_data, "text", <<>>),
            appliquer_style_run(NoFont, Get(run_data, "style", PyNone), base_style).font)

\* for run_data in bloc.get("runs", []): ...
RenderRuns(base_style, runs) ==
    [i \in 1..Len(runs) |-> RenderRun(base_style, runs[i])]

\* p = document.add_heading(level=level) or document.add_paragraph(), then
\* the runs: [doc, raised]
RenderParagraph(base_style, doc, isHeading, level, runs) ==
    IF isHeading /\ HeadingRaises(level) THEN [doc |-> doc, raised |-> TRUE]
    ELSE [doc |-> Append(doc, DocxPara(<<IF isHeading THEN HeadingStyle(level)
                                         ELSE S_Normal>>,
                                       RenderRuns(base_style, runs))),
          raised |-> FALSE]

\* for item in bloc.get("items", []): document.add_paragraph(item, style="List Bullet")
RenderItems(doc, items) ==
    doc \o [i \in 1..Len(items) |-> TextParagraph(items[i], S_ListBullet)]

\* p = table.cell(r_idx, c_idx).paragraphs[0]; run = p.add_run(cell_text), with
\* the font the style function gave: IndexError when there is no such cell,
\* TypeError when cell_text is a non-empty list: [table, raised]
CellRun(table, at, cell_text, font) ==
    IF at = <<>> \/ (cell_text.t = "list" /\ Truthy(cell_text))
    THEN [table |-> table, raised |-> TRUE]
    ELSE [table |-> [table EXCEPT !.rows[at[1]][at[2]][1].runs =
                        Append(@, DocxRun(IF Truthy(cell_text) THEN cell_text.v ELSE <<>>,
                                          font))],
          raised |-> FALSE]

RECURSIVE RenderCells(_, _, _, _, _, _)
RECURSIVE RenderCellsFrom(_, _, _, _, _, _)

\* The rest of the loops once the cell before (r_idx, c_idx) is filled
RenderCellsFrom(base_style, res, rows, cols, r_idx, c_idx) ==
    IF res.raised THEN res
    ELSE RenderCells(base_style, res.table, rows, cols, r_idx, c_idx)

\* for r_idx, row in enumerate(rows): for c_idx, cell_text in enumerate(row): ...
\* from the cell c_idx of the row r_idx on: [table, raised]
RenderCells(base_style, table, rows, cols, r_idx, c_idx) ==
    IF r_idx >= Len(rows) THEN [table |-> table, raised |-> FALSE]
    ELSE IF c_idx >= Len(rows[r_idx + 1])
    THEN RenderCells(base_style, table, rows, cols, r_idx + 1, 0)
    ELSE RenderCellsFrom(base_style,
            CellRun(table, TableCell(Len(rows), cols, r_idx, c_idx),
                    rows[r_idx + 1][c_idx + 1],
                    appliquer_style_run(NoFont, PyNone, base_style).font),
            rows, cols, r_idx, c_idx + 1)

\* table = document.add_table(rows=len(rows), cols=len(rows[0])) and the loops
RenderTable(base_style, doc, rows) ==
    IF rows = <<>> THEN [doc |-> doc, raised |-> FALSE]
    ELSE AddedTable(doc, RenderCells(base_style, NewTable(Len(rows), Len(rows[1])),
                                     rows, Len(rows[1]), 0, 0))

\* One iteration of "for bloc in reponse_structuree" of generer_export_docx:
\* [doc, raised]
RenderBloc(base_style, doc, bloc) ==
    IF Get(bloc, "type", T_paragraph) = T_list
    THEN [doc |-> RenderItems(doc, Get(bloc, "items", <<>>)), raised |-> FALSE]
    ELSE IF Get(bloc, "type", T_paragraph) = T_table
    THEN RenderTable(base_style, doc, Get(bloc, "rows", <<>>))
    ELSE RenderParagraph(base_style, doc,
                         StartsWith(Get(bloc, "type", T_paragraph), T_heading),
                         LevelOrOne(LevelOf(Get(bloc, "type", T_paragraph))),
                         Get(bloc, "runs", <<>>))

\* The containers whose reading gives the block lists that are rendered
pH2     == DocxPara(<<S_Titre(2)>>, <<R(<<"g">>)>>)
pH3     == DocxPara(<<S_Heading(3)>>, <<R(<<"k">>)>>)
tEmpty  == DocxTable(<< << <<>>, <<pBlank>> >> >>)
tOne    == DocxTable(<< << <<pN>> >> >>)

RenderPool == { pN, pBlank, pMixed, pLa, pLb, pH1, pH2, pH3, tEmpty, tOne, tCells }

MaxRead == 2

RenderSources == SeqsUpTo(RenderPool, MaxRead)

\* Blocks a caller writes: the cells of a table are strings
Str(t) == PyStr(t)
bTable   == [type |-> T_table, rows |-> << <<Str(<<"a">>), Str(<<"b">>)>>, <<Str(<<"c">>)>> >>]
bJagged  == [type |-> T_table, rows |-> << <<Str(<<"a">>)>>, <<Str(<<"b">>), Str(<<"c">>)>> >>]
bWide    == [type |-> T_table,
             rows |-> << <<Str(<<"a">>), Str(<<"b">>)>>,
                         <<Str(<<"c">>), Str(<<"d">>), Str(<<"e">>)>> >>]
bNoRows  == [type |-> T_table]
bList(t) == [type |-> T_list, items |-> <<t>>]
bStyled  ==
    [type |-> T_paragraph,
     runs |-> << [text |-> <<"s">>,
                  style |-> [font_size |-> PyStr(S_abc), font_color_rgb |-> PyStr(S_abc),
                             is_bold |-> PyBool(TRUE)]],
                 [style |-> [font_size |-> PyStr(<<"1","4">>),
                             font_color_rgb |-> PyStr(S_Legacy)]] >>]
bHeading(type) == [type |-> type, runs |-> <<Run(<<"t">>)>>]

CallerPool ==
    { bTable, bJagged, bWide, bNoRows, bList(<<"a">>), bList(<<"b">>), bStyled,
      [runs |-> <<Run(<<"u">>)>>],
      bHeading(T_heading_3), bHeading(T_heading_10), bHeading(T_heading_x),
      bHeading(T_heading), bHeading(T_heading_1) }

MaxBlocs == 2

CallerBlocs == SeqsUpTo(CallerPool, MaxBlocs) \ {<<>>}

RenderStyles ==
    { EmptyDict,
      [response |-> [font_size |-> PyStr(S_abc), font_color_rgb |-> PyStr(S_abc)]] }

NoOutput == [returned |-> FALSE, doc |-> <<>>, pos |-> 0]

RenderInit ==
    /\ rn_read \in BOOLEAN
    /\ rn_structure \in IF rn_read
                        THEN {analyser_contenu_block(c) : c \in RenderSources}
                        ELSE {<<>>}
    /\ rn_blocs \in IF rn_read THEN {ReaderBlocs(rn_structure)} ELSE CallerBlocs
    /\ rn_styles \in RenderStyles
    /\ rn_doc = <<>>
    /\ rn_i = 1
    /\ rn_output = NoOutput
    /\ rn_reread = <<>>
    /\ rn_pc = "loop"

RenderIdle ==
    /\ rn_read = FALSE
    /\ rn_structure = <<>>
    /\ rn_blocs = <<>>
    /\ rn_styles = EmptyDict
    /\ rn_doc = <<>>
    /\ rn_i = 1
    /\ rn_output = NoOutput
    /\ rn_reread = <<>>
    /\ rn_pc = "idle"

\* The state after an iteration returned or raised
RenderStep(r) ==
    /\ rn_doc' = r.doc
    /\ rn_i' = rn_i + 1
    /\ rn_pc' = IF r.raised THEN "raised" ELSE "loop"

\* for bloc in reponse_structuree: one iteration; an exception leaves
\* generer_export_docx
RenderLoop ==
    /\ rn_pc = "loop"
    /\ rn_i <= Len(rn_blocs)
    /\ RenderStep(RenderBloc(Get(rn_styles, "response", EmptyDict), rn_doc, rn_blocs[rn_i]))
    /\ UNCHANGED <<rn_read, rn_structure, rn_blocs, rn_styles, rn_output, rn_reread>>
    /\ UNCHANGED notRn

\* output = io.BytesIO(); document.save(output); output.seek(0); return output
RenderReturn ==
    /\ rn_pc = "loop"
    /\ rn_i > Len(rn_blocs)
    /\ rn_output' = [returned |-> TRUE, doc |-> rn_doc, pos |-> 0]
    /\ rn_pc' = "returned"
    /\ UNCHANGED <<rn_read, rn_structure, rn_blocs, rn_styles, rn_doc, rn_i, rn_reread>>
    /\ UNCHANGED notRn

\* analyser_docx(output)[0]["body"]: the stream is rewound, the package
\* opened and its body walked
RenderReread ==
    /\ rn_pc = "returned"
    /\ rn_reread' = analyser_contenu_block(rn_output.doc)
    /\ rn_pc' = "reread"
    /\ UNCHANGED <<rn_read, rn_structure, rn_blocs, rn_styles, rn_doc, rn_i, rn_output>>
    /\ UNCHANGED notRn

RenderNext == RenderLoop \/ RenderReturn \/ RenderReread

----------------------------------------------------------------------------
(* Batch export: generer_export_docx_batch.                                *)
(* A record is a dict; succeeded and failed hold the positions of the      *)
(* records in resultats, in the order they were appended.                  *)

S_succeeded == <<"s","u","c","c","e","e","d","e","d">>
S_failed    == <<"f","a","i","l","e","d">>
S_Annexe    == <<"A","n","n","e","x","e">>
S_None      == <<"N","o","n","e">>

\* styles = template_source if template_source is not None else styles_interface
BatchStyles(styles_interface, template_source) ==
    IF template_source # PyNone THEN template_source ELSE styles_interface

\* What md.convert and BeautifulSoup give for the response texts of the model:
\* a heading for "# t", a paragraph for a text without markup
Parsed(text) ==
    [fails |-> FALSE,
     body |-> Tag(<<"b","o","d","y">>,
                  <<IF text = S_Markup THEN Tag(N_h(1), <<NavStr(<<"t">>)>>)
                    ELSE Tag(N_p, <<NavStr(text)>>)>>)]

\* para = converter.doc.add_paragraph(); run = para.add_run(prompt_text);
\* converter._apply_style(run, style_name="prompt"), r what _apply_style gave
PromptParagraph(doc, prompt_text, r) ==
    [doc |-> Append(doc, DocxPara(<<S_Normal>>, <<DocxRun(prompt_text, r.font)>>)),
     raised |-> r.raised]

RECURSIVE BatchRuns(_, _, _)
\* for run_data in bloc.get("runs", []): r = p.add_run(run_data.get("text", ""));
\* converter._apply_style(r, run_data.get("style"), style_name="response")
BatchRuns(styles, acc, runs) ==
    IF runs = <<>> \/ acc.raised THEN acc
    ELSE BatchRuns(styles,
            AddStyledRun(styles, acc, Get(Head(runs), "text", <<>>),
                         Get(Head(runs), "style", PyNone), FALSE, FALSE),
            Tail(runs))

\* The document with the paragraph the runs were added to
BatchAdded(doc, r) == Added(doc, r.para, r.raised)

\* p = converter.doc.add_heading(level=level) or converter.doc.add_paragraph(),
\* then the runs; int() raised when level = -1
BatchParagraph(styles, doc, isHeading, level, runs) ==
    IF isHeading /\ HeadingRaises(level) THEN [doc |-> doc, raised |-> TRUE]
    ELSE BatchAdded(doc,
            FilledParagraph(IF isHeading THEN HeadingStyle(level) ELSE S_Normal,
                BatchRuns(styles, [runs |-> <<>>, link |-> <<>>, raised |-> FALSE],
                          runs)))

\* r = p.add_run(cell_text); converter._apply_style(r), for a cell there is
\* and a text that is no list
BatchCellRun(table, at, cell_text, r) ==
    [table |-> [table EXCEPT !.rows[at[1]][at[2]][1].runs =
                  Append(@, DocxRun(IF Truthy(cell_text) THEN cell_text.v ELSE <<>>,
                                    r.font))],
     raised |-> r.raised]

\* p = table.cell(r_idx, c_idx).paragraphs[0]; r = p.add_run(cell_text);
\* converter._apply_style(r): [table, raised]
BatchCell(styles, table, at, cell_text) ==
    IF at = <<>> \/ (cell_text.t = "list" /\ Truthy(cell_text))
    THEN [table |-> table, raised |-> TRUE]
    ELSE BatchCellRun(table, at, cell_text, apply_style(styles, NoFont, PyNone, "response"))

RECURSIVE BatchCells(_, _, _, _, _, _)
RECURSIVE BatchCellsFrom(_, _, _, _, _, _)

\* The rest of the loops once the cell before (r_idx, c_idx) is filled
BatchCellsFrom(styles, res, rows, cols, r_idx, c_idx) ==
    IF res.raised THEN res ELSE BatchCells(styles, res.table, rows, cols, r_idx, c_idx)

\* The loops over the rows and cells (260-264), from the cell c_idx of the
\* row r_idx on: [table, raised]
BatchCells(styles, table, rows, cols, r_idx, c_idx) ==
    IF r_idx >= Len(rows) THEN [table |-> table, raised |-> FALSE]
    ELSE IF c_idx >= Len(rows[r_idx + 1])
    THEN BatchCells(styles, table, rows, cols, r_idx + 1, 0)
    ELSE BatchCellsFrom(styles,
            BatchCell(styles, table, TableCell(Len(rows), cols, r_idx, c_idx),
                      rows[r_idx + 1][c_idx + 1]),
            rows, cols, r_idx, c_idx + 1)

\* table = converter.doc.add_table(rows=len(rows), cols=len(rows[0])) and the loops
BatchTable(styles, doc, rows) ==
    IF rows = <<>> THEN [doc |-> doc, raised |-> FALSE]
    ELSE AddedTable(doc, BatchCells(styles, NewTable(Len(rows), Len(rows[1])),
                                    rows, Len(rows[1]), 0, 0))

\* One iteration of "for bloc in reponse_structuree" (250-275): [doc, raised]
BatchBloc(styles, doc, bloc) ==
    IF Get(bloc, "type", T_paragraph) = T_list
    THEN [doc |-> RenderItems(doc, Get(bloc, "items", <<>>)), raised |-> FALSE]
    ELSE IF Get(bloc, "type", T_paragraph) = T_table
    THEN BatchTable(styles, doc, Get(bloc, "rows", <<>>))
    ELSE BatchParagraph(styles, doc,
                        StartsWith(Get(bloc, "type", T_paragraph), T_heading \o <<"_">>),
                        LevelOf(Get(bloc, "type", T_paragraph)),
                        Get(bloc, "runs", <<>>))

RECURSIVE BatchBlocs(_, _, _)
\* for bloc in reponse_structuree: ..., until one raises
BatchBlocs(styles, res, blocs) ==
    IF blocs = <<>> \/ res.raised THEN res
    ELSE BatchBlocs(styles, BatchBloc(styles, res.doc, Head(blocs)), Tail(blocs))

\* response_text = item.get("clean_response") or item.get("response", "")
ResponseText(item) ==
    IF Get(item, "clean_response", <<>>) # <<>> THEN item.clean_response
    ELSE Get(item, "response", <<>>)

\* The response of an item (248-278) after its prompt paragraph was added
BatchResponse(styles, res, item) ==
    IF res.raised THEN res
    ELSE IF Get(item, "structured_response", <<>>) # <<>>
    THEN BatchBlocs(styles, res, item.structured_response)
    ELSE [doc |-> add_markdown(styles, res.doc, ResponseText(item),
                               Parsed(ResponseText(item))),
          raised |-> FALSE]

\* converter.doc.add_paragraph() at the end of the iteration
BatchSpacer(res) ==
    IF res.raised THEN res ELSE [res EXCEPT !.doc = Append(@, NewParagraph(S_Normal))]

\* One iteration of "for item in succeeded" (243-280): [doc, raised]
BatchItem(styles, doc, item) ==
    BatchSpacer(
        BatchResponse(styles,
            PromptParagraph(doc, Get(item, "prompt_text", <<>>),
                            apply_style(styles, NoFont, PyNone, "prompt")),
            item))

\* converter.doc.add_page_break(): a paragraph whose run holds a page break,
\* written "\f"
PageBreak == DocxPara(<<S_Normal>>, <<DocxRun(<<"\f">>, NoFont)>>)

\* converter.doc.add_heading("Annexe - Requêtes échouées", level=1)
AppendixHeading == TextParagraph(S_Annexe, S_Heading(1))

\* title = item.get("prompt_text") or item.get("custom_id"); None adds no run
Title(item) ==
    IF Get(item, "prompt_text", <<>>) # <<>> THEN item.prompt_text
    ELSE Get(item, "custom_id", <<>>)

\* json.dumps(err, ensure_ascii=False, indent=2) of a dict with one key
JsonDumps(d) ==
    LET k == CHOOSE x \in DOMAIN d : TRUE
    IN  <<"{", "\n", " ", " ", "\"">> \o k \o <<"\"", ":", " ", "\"">> \o d[k]
        \o <<"\"", "\n", "}">>

\* err = item.get("error"); if isinstance(err, dict): err = json.dumps(...); str(err)
ErrorText(err) ==
    CASE err.t = "None" -> S_None
      [] err.t = "dict" -> JsonDumps(err.v)
      [] OTHER -> err.v

\* One iteration of "for item in failed" (286-292)
FailedItem(doc, item) ==
    doc \o << TextParagraph(Title(item), S_ListBullet),
              TextParagraph(ErrorText(Get(item, "error", PyNone)), S_Normal) >>

rMarkup  == [status |-> S_succeeded, prompt_text |-> <<"m">>, clean_response |-> S_Markup]
rPlain   == [status |-> S_succeeded, prompt_text |-> <<"n">>, response |-> <<"w">>]
rBlocs   ==
    [status |-> S_succeeded, prompt_text |-> <<"o">>,
     structured_response |-> <<bHeading(T_heading_1), bList(<<"a">>), bTable>>]
rBadTag  ==
    [status |-> S_succeeded, prompt_text |-> <<"q">>,
     structured_response |-> <<bHeading(T_heading_x)>>]
rJagged  ==
    [status |-> S_succeeded, prompt_text |-> <<"r">>,
     structured_response |-> <<P(<<"v">>), bJagged>>]
rFailed  ==
    [status |-> S_failed, prompt_text |-> <<"f">>, error |-> PyStr(<<"e">>)]
rDict    ==
    [status |-> S_failed, custom_id |-> <<"c">>,
     error |-> [t |-> "dict", v |-> [k \in {<<"m">>} |-> <<"e">>]]]
rNoStatus == [prompt_text |-> <<"z">>]

BatchRecords == { rMarkup, rPlain, rBlocs, rBadTag, rJagged, rFailed, rDict, rNoStatus }

MaxRecords == 3

BatchInterfaceStyles ==
    { EmptyDict, [response |-> [font_size |-> PyStr(S_abc)]] }

BatchTemplates ==
    { PyNone, [prompt |-> [is_bold |-> PyBool(TRUE)], response |-> [font_size |-> PyNum(11)]] }

BatchInit ==
    /\ resultats \in SeqsUpTo(BatchRecords, MaxRecords)
    /\ \E si \in BatchInterfaceStyles, ts \in BatchTemplates :
          bt_styles = BatchStyles(si, ts)
    /\ succeeded = <<>>
    /\ failed = <<>>
    /\ bt_doc = <<>>
    /\ bt_trace = <<>>
    /\ bt_i = 1
    /\ bt_pc = "partition"

BatchIdle ==
    /\ resultats = <<>>
    /\ bt_styles = EmptyDict
    /\ succeeded = <<>>
    /\ failed = <<>>
    /\ bt_doc = <<>>
    /\ bt_trace = <<>>
    /\ bt_i = 1
    /\ bt_pc = "idle"

\* What was rendered: the record at position idx of resultats, in the section
\* sec, its first paragraph at position `at` of the document; sec "break" is
\* the page break of the appendix.
RenderedAt(sec, idx, at) == [sec |-> sec, idx |-> idx, at |-> at]

\* for res in resultats: one iteration
BatchPartition ==
    /\ bt_pc = "partition"
    /\ bt_i <= Len(resultats)
    /\ IF Get(resultats[bt_i], "status", <<>>) = S_succeeded
       THEN succeeded' = Append(succeeded, bt_i) /\ UNCHANGED failed
       ELSE failed' = Append(failed, bt_i) /\ UNCHANGED succeeded
    /\ bt_i' = bt_i + 1
    /\ UNCHANGED <<resultats, bt_styles, bt_doc, bt_trace, bt_pc>>
    /\ UNCHANGED notBt

\* The loop over resultats ends; the loop over succeeded starts
BatchPartitioned ==
    /\ bt_pc = "partition"
    /\ bt_i > Len(resultats)
    /\ bt_i' = 1
    /\ bt_pc' = "main"
    /\ UNCHANGED <<resultats, bt_styles, succeeded, failed, bt_doc, bt_trace>>
    /\ UNCHANGED notBt

\* The state after an iteration of the loop over succeeded returned or raised
BatchStep(r) ==
    /\ bt_doc' = r.doc
    /\ bt_trace' = IF r.raised THEN bt_trace
                   ELSE Append(bt_trace, RenderedAt("main", succeeded[bt_i], Len(bt_doc) + 1))
    /\ bt_pc' = IF r.raised THEN "raised" ELSE "main"

\* for item in succeeded: one iteration; an exception leaves the function
BatchMain ==
    /\ bt_pc = "main"
    /\ bt_i <= Len(succeeded)
    /\ BatchStep(BatchItem(bt_styles, bt_doc, resultats[succeeded[bt_i]]))
    /\ bt_i' = bt_i + 1
    /\ UNCHANGED <<resultats, bt_styles, succeeded, failed>>
    /\ UNCHANGED notBt

\* if failed: the page break and the heading of the appendix
BatchAppendix ==
    /\ bt_pc = "main"
    /\ bt_i > Len(succeeded)
    /\ failed # <<>>
    /\ bt_doc' = bt_doc \o <<PageBreak, AppendixHeading>>
    /\ bt_trace' = Append(bt_trace, RenderedAt("break", 0, Len(bt_doc) + 1))
    /\ bt_i' = 1
    /\ bt_pc' = "appendix"
    /\ UNCHANGED <<resultats, bt_styles, succeeded, failed>>
    /\ UNCHANGED notBt

\* for item in failed: one iteration
BatchFailed ==
    /\ bt_pc = "appendix"
    /\ bt_i <= Len(failed)
    /\ bt_doc' = FailedItem(bt_doc, resultats[failed[bt_i]])
    /\ bt_trace' = Append(bt_trace, RenderedAt("appendix", failed[bt_i], Len(bt_doc) + 1))
    /\ bt_i' = bt_i + 1
    /\ UNCHANGED <<resultats, bt_styles, succeeded, failed, bt_pc>>
    /\ UNCHANGED notBt

\* converter.doc.save(output); output.seek(0); return output
BatchReturn ==
    /\ \/ bt_pc = "main" /\ bt_i > Len(succeeded) /\ failed = <<>>
       \/ bt_pc = "appendix" /\ bt_i > Len(failed)
    /\ bt_pc' = "returned"
    /\ UNCHANGED <<resultats, bt_styles, succeeded, failed, bt_doc, bt_trace, bt_i>>
    /\ UNCHANGED notBt

BatchNext ==
    BatchPartition \/ BatchPartitioned \/ BatchMain \/ BatchAppendix \/ BatchFailed
    \/ BatchReturn

\* ==== NEXT ====
\* ==== SPECS ====
----------------------------------------------------------------------------
(* Specifications: one per operation, the others idle *)

InitFlatten ==
    /\ FlattenInit
    /\ ReaderIdle /\ StyleIdle /\ AnalyserIdle
    /\ MarkdownIdle /\ RenderIdle /\ BatchIdle
SpecFlatten == InitFlatten /\ [][FlattenNext]_vars

InitReader ==
    /\ ReaderInit
    /\ FlattenIdle /\ StyleIdle /\ AnalyserIdle
    /\ MarkdownIdle /\ RenderIdle /\ BatchIdle
SpecReader == InitReader /\ [][ReaderNext]_vars

InitStyle ==
    /\ StyleInit
    /\ FlattenIdle /\ ReaderIdle /\ AnalyserIdle
    /\ MarkdownIdle /\ RenderIdle /\ BatchIdle
SpecStyle == InitStyle /\ [][StyleNext]_vars

InitAnalyser ==
    /\ AnalyserInit
    /\ FlattenIdle /\ ReaderIdle /\ StyleIdle
    /\ MarkdownIdle /\ RenderIdle /\ BatchIdle
SpecAnalyser == InitAnalyser /\ [][AnalyserNext]_vars

InitMarkdown ==
    /\ MarkdownInit
    /\ FlattenIdle /\ ReaderIdle /\ StyleIdle
    /\ AnalyserIdle /\ RenderIdle /\ BatchIdle
SpecMarkdown == InitMarkdown /\ [][MarkdownNext]_vars

InitRender ==
    /\ RenderInit
    /\ FlattenIdle /\ ReaderIdle /\ StyleIdle
    /\ AnalyserIdle /\ MarkdownIdle /\ BatchIdle
SpecRender == InitRender /\ [][RenderNext]_vars

InitBatch ==
    /\ BatchInit
    /\ FlattenIdle /\ ReaderIdle /\ StyleIdle
    /\ AnalyserIdle /\ MarkdownIdle /\ RenderIdle
SpecBatch == InitBatch /\ [][BatchNext]_vars

\* ==== CLAIMS ====
----------------------------------------------------------------------------
(* C1: the flattener returns the text units joined by "\n\n", the units of *)
(* the header before those of the body before those of the footer, in      *)
(* block order, a table contributing the units of its cells row by row and *)
(* cell by cell at its position; H, B, F gives "H\n\nB\n\nF".              *)

RECURSIVE UnitsOf(_)
\* The text units of a block list, as the claim describes them.
UnitsOf(blocs) ==
    IF blocs = <<>> THEN <<>>
    ELSE LET b == Head(blocs)
             t == Get(b, "type", T_inconnu)
             items == Get(b, "items", <<>>)
             rows == Get(b, "rows", <<>>)
             text == ConcatAll([i \in 1..Len(Get(b, "runs", <<>>)) |->
                                  Get(b.runs[i], "text", <<>>)])
             cellsInOrder == ConcatAll(rows)
             own ==
               IF t = T_table
               THEN ConcatAll([i \in 1..Len(cellsInOrder) |-> UnitsOf(cellsInOrder[i])])
               ELSE IF t = T_list
               THEN SelectSeq(items, StripNonEmpty)
               ELSE IF StripNonEmpty(text) THEN <<text>> ELSE <<>>
         IN  own \o UnitsOf(Tail(blocs))

ExampleHBF ==
    [header |-> <<P(<<"H">>)>>, body |-> <<P(<<"B">>)>>, footer |-> <<P(<<"F">>)>>]

C1_FlattenOrder ==
    fl_pc = 4 =>
        /\ texte_final =
             JoinWith(UnitsOf(Get(document_structure, "header", <<>>))
                      \o UnitsOf(Get(document_structure, "body", <<>>))
                      \o UnitsOf(Get(document_structure, "footer", <<>>)),
                      <<"\n", "\n">>)
        /\ document_structure = ExampleHBF =>
             texte_final = <<"H", "\n", "\n", "B", "\n", "\n", "F">>

\* A structure with units in all three partitions and a table in the body
\* has been flattened.
C1_Witness ==
    /\ fl_pc = 4
    /\ "header" \in DOMAIN document_structure
    /\ document_structure.header = <<P(<<"H">>)>>
    /\ document_structure.body = <<FlattenTable, P(<<"B">>)>>
    /\ document_structure.footer = <<P(<<"F">>)>>
    /\ texte_final = <<"H", "\n", "\n", "c", "1", "\n", "\n", "c", "2", "\n", "\n",
                       "c", "3", "\n", "\n", "i", "\n", "\n", "n", "\n", "\n",
                       "B", "\n", "\n", "F">>

----------------------------------------------------------------------------
(* C2: list coalescing in the traversal of a container.                    *)

\* A list-style paragraph with non-blank text.
IsListItem(child) ==
    /\ child.k = "p"
    /\ StripNonEmpty(ParagraphText(child))
    /\ IsListStyle(StyleName(child))

\* A child for which the traversal emits nothing.
EmitsNothing(child) == AnalyserBlock(<<>>, child) = <<>>

RECURSIVE GroupsFrom(_, _, _, _)
\* The maximal sequences of list items of `children`, as sequences of texts;
\* the children of index in `transparent` neither belong to a sequence nor
\* end one.
GroupsFrom(children, i, transparent, cur) ==
    IF i > Len(children) THEN (IF cur = <<>> THEN <<>> ELSE <<cur>>)
    ELSE IF IsListItem(children[i])
    THEN GroupsFrom(children, i + 1, transparent,
                    Append(cur, ParagraphText(children[i])))
    ELSE IF i \in transparent
    THEN GroupsFrom(children, i + 1, transparent, cur)
    ELSE (IF cur = <<>> THEN <<>> ELSE <<cur>>)
         \o GroupsFrom(children, i + 1, transparent, <<>>)

\* The items of the list blocks of a block list, block by block.
ListItemsOf(blocs) ==
    LET lists == SelectSeq(blocs, LAMBDA b : b.type = T_list)
    IN  [i \in 1..Len(lists) |-> lists[i].items]

NoAdjacentLists(blocs) ==
    \A i \in 1..(Len(blocs) - 1) : ~(blocs[i].type = T_list /\ blocs[i + 1].type = T_list)

\* C2 as stated: every maximal sequence of list-style non-blank paragraphs
\* that are consecutive children of the container gives exactly one List
\* block with their texts in source order.
C2_Original ==
    rd_pc = "returned" =>
        ListItemsOf(contenu_structure) = GroupsFrom(parent, 1, {}, <<>>)

\* C2 as amended: every maximal sequence of list-style non-blank paragraphs
\* between which the traversal emits no block (whitespace-only paragraphs,
\* paragraphs without a non-blank run, tables without rows and other
\* elements emit nothing and do not end the sequence) gives exactly one List
\* block with their texts in source order, and no List block directly
\* follows a List block; "a","b","c" gives one block with items a, b, c.
C2_ListCoalescing ==
    /\ NoAdjacentLists(contenu_structure)
    /\ rd_pc = "returned" =>
        /\ ListItemsOf(contenu_structure) =
             GroupsFrom(parent, 1,
                        {i \in 1..Len(parent) : EmitsNothing(parent[i])}, <<>>)
        /\ parent = <<pLa, pLb, pLc>> =>
             contenu_structure =
               <<[type |-> T_list, items |-> <<<<"a">>, <<"b">>, <<"c">>>>]>>

\* Two list paragraphs around a whitespace-only paragraph were read into one
\* List block.
C2_Witness ==
    /\ rd_pc = "returned"
    /\ parent = <<pLa, pBlank, pLb>>
    /\ contenu_structure = <<[type |-> T_list, items |-> <<<<"a">>, <<"b">>>>]>>

----------------------------------------------------------------------------
(* C3: no empty run, paragraph, list item, list or table is ever emitted.  *)

RECURSIVE WellFormedBlocks(_)
WellFormedBlocks(blocs) ==
    \A i \in 1..Len(blocs) :
        LET b == blocs[i] IN
        IF b.type = T_list
        THEN b.items # <<>> /\ \A j \in 1..Len(b.items) : StripNonEmpty(b.items[j])
        ELSE IF b.type = T_table
        THEN /\ b.rows # <<>>
             /\ \A r \in 1..Len(b.rows) : \A c \in 1..Len(b.rows[r]) :
                    WellFormedBlocks(b.rows[r][c])
        ELSE b.runs # <<>> /\ \A j \in 1..Len(b.runs) : StripNonEmpty(b.runs[j].text)

\* A paragraph that is not list-styled and has a non-blank run.
IsRealParagraph(child) ==
    /\ child.k = "p"
    /\ ~IsListStyle(StyleName(child))
    /\ \E j \in 1..Len(child.runs) : StripNonEmpty(child.runs[j].text)

IsBlankParagraph(child) ==
    child.k = "p" /\ ~StripNonEmpty(ParagraphText(child))

\* C3: at every point of the traversal, at every nesting depth, no run is
\* blank, no paragraph or heading has zero runs, no list has zero items or a
\* blank item, no table has zero rows; and only whitespace-only paragraphs
\* between two real paragraphs give exactly two blocks.
C3_NoEmptyBlocks ==
    /\ WellFormedBlocks(contenu_structure)
    /\ ( /\ rd_pc = "returned"
         /\ Len(parent) >= 2
         /\ IsRealParagraph(parent[1])
         /\ IsRealParagraph(parent[Len(parent)])
         /\ \A i \in 2..(Len(parent) - 1) : IsBlankParagraph(parent[i]) )
       => Len(contenu_structure) = 2

\* A paragraph with a blank run, a whitespace-only paragraph and a table
\* with an empty cell were read: the blank run and paragraph are gone.
C3_Witness ==
    /\ rd_pc = "returned"
    /\ parent = <<pMixed, pBlank, tNested>>
    /\ Len(contenu_structure) = 2
    /\ Len(contenu_structure[1].runs) = 2
    /\ contenu_structure[2].rows[1][1][1].rows[1][2] = <<>>

----------------------------------------------------------------------------
(* C4: heading classification for the levels 1..6.                         *)

HeadingTag(n) == <<"h","e","a","d","i","n","g","_">> \o <<DigitChar[n + 1]>>

HeadingLevels == 1..6

\* The block type the claim gives a style name.
ClaimedBlockType(name) ==
    LET low == Lower(name)
        levels == {n \in HeadingLevels :
                     \/ StartsWith(low, Lower(S_Heading(n)))
                     \/ StartsWith(low, Lower(S_Titre(n)))}
    IN  IF levels = {} THEN T_paragraph ELSE HeadingTag(CHOOSE n \in levels : TRUE)

\* C4: a non-list, non-empty paragraph whose style name starts with
\* "Heading N" or "Titre N", N in 1..6, is read as heading_N, and as
\* paragraph when no heading prefix matches.
C4_HeadingLevels ==
    ( /\ rd_pc = "returned"
      /\ Len(parent) = 1
      /\ IsRealParagraph(parent[1])
      /\ parent[1].style # <<>> )
    => /\ Len(contenu_structure) = 1
       /\ contenu_structure[1].type = ClaimedBlockType(parent[1].style[1])

----------------------------------------------------------------------------
(* C5: style merge, override over base, in both renderers.                 *)

StyleFields == {"font_name", "font_size", "is_bold", "is_italic", "font_color_rgb"}

\* The base style and the override of the call the state records.
CallBase == Get(sm_styles, sm_name, EmptyDict)
CallOverride == OrEmpty(sm_override)

\* C5: after either function has merged, each field of style_combined is the
\* override's when the override has the field and the base's otherwise (and
\* is absent when neither has it); {font_size:12, is_bold:false} merged with
\* {is_bold:true} is {font_size:12, is_bold:true} and with {font_size:14} is
\* {font_size:14, is_bold:false}; an empty or missing override gives the base.
C5_MergePrecedence ==
    sm_pc \in {"applied", "raised"} =>
        /\ \A k \in StyleFields :
             /\ k \in DOMAIN CallOverride =>
                  k \in DOMAIN sm_combined /\ sm_combined[k] = CallOverride[k]
             /\ (k \notin DOMAIN CallOverride /\ k \in DOMAIN CallBase) =>
                  k \in DOMAIN sm_combined /\ sm_combined[k] = CallBase[k]
             /\ (k \notin DOMAIN CallOverride /\ k \notin DOMAIN CallBase) =>
                  k \notin DOMAIN sm_combined
        /\ (CallBase = [font_size |-> PyNum(12), is_bold |-> PyBool(FALSE)]
            /\ sm_override = [is_bold |-> PyBool(TRUE)])
           => sm_combined = [font_size |-> PyNum(12), is_bold |-> PyBool(TRUE)]
        /\ (CallBase = [font_size |-> PyNum(12), is_bold |-> PyBool(FALSE)]
            /\ sm_override = [font_size |-> PyNum(14)])
           => sm_combined = [font_size |-> PyNum(14), is_bold |-> PyBool(FALSE)]
        /\ sm_override \in {PyNone, EmptyDict} => sm_combined = CallBase

\* _appliquer_style_run has merged the base of the example with {is_bold:true}.
C5_Witness ==
    /\ sm_pc = "applied"
    /\ sm_fn = "_appliquer_style_run"
    /\ CallBase = [font_size |-> PyNum(12), is_bold |-> PyBool(FALSE)]
    /\ sm_override = [is_bold |-> PyBool(TRUE)]
    /\ sm_combined = [font_size |-> PyNum(12), is_bold |-> PyBool(TRUE)]
    /\ sm_font.bold = PyBool(TRUE)
    /\ sm_font.size = PyNum(12)

----------------------------------------------------------------------------
(* C6: analyser_docx returns the complete structure or the empty one.      *)

\* The structure of a package all of whose parts are extracted.
CompleteStructure ==
    [header |-> IF file_stream.sections = <<>> THEN <<>>
                ELSE analyser_contenu_block(file_stream.sections[1].header),
     body |-> analyser_contenu_block(file_stream.body),
     footer |-> IF file_stream.sections = <<>> THEN <<>>
                ELSE analyser_contenu_block(file_stream.sections[1].footer)]

\* Some step of this call raises.
SomeStepFails ==
    \/ ~file_stream.package
    \/ az_fail.at \in {"seek", "open", "body"}
    \/ az_fail.at \in {"header", "footer"} /\ file_stream.sections # <<>>

\* C6: analyser_docx never raises; when a step fails it returns the empty
\* structure, and otherwise the complete structure of the package: never a
\* partially filled one.
C6_AllOrNothing ==
    /\ az_pc # "raised"
    /\ az_pc = "returned" =>
         IF SomeStepFails THEN az_result = EmptyStructure
         ELSE az_result = CompleteStructure

\* The body was extracted, the header traversal failed, and the call
\* returned the empty structure.
C6_Witness ==
    /\ az_pc = "returned"
    /\ az_fail.at = "header"
    /\ az_locals.body # <<>>
    /\ az_result = EmptyStructure

----------------------------------------------------------------------------
(* C7: the fallback of add_markdown.                                       *)

\* The two paragraphs of the fallback: the italic grey warning carrying the
\* error message, then the original markup text.
IsFallbackPair(warning, verbatim) ==
    /\ warning.k = "p" /\ Len(warning.runs) = 1
    /\ warning.runs[1].font.italic = PyBool(TRUE)
    /\ warning.runs[1].font.color = PyStr(S_787878)
    /\ warning.runs[1].text = S_Warning \o ErrorMessage(md_error) \o <<"]">>
    /\ verbatim.k = "p" /\ Len(verbatim.runs) = 1
    /\ verbatim.runs[1].text = md_text

\* C7: when the pipeline failed at any point, add_markdown has returned and
\* the document is the document before the call plus exactly two
\* paragraphs, the warning and the verbatim text.
C7_FallbackTwoParagraphs ==
    /\ md_pc # "raised"
    /\ (md_pc = "returned" /\ md_error # "none") =>
         /\ Len(md_doc) = Len(md_doc0) + 2
         /\ SubSeq(md_doc, 1, Len(md_doc0)) = md_doc0
         /\ IsFallbackPair(md_doc[Len(md_doc) - 1], md_doc[Len(md_doc)])

----------------------------------------------------------------------------
(* C8: rendering what the reader produced and reading it back.             *)

RECURSIVE Shape(_)
\* What the round trip compares of a block list: the types in order, the
\* list items, the run texts, and the same of the cells of the tables.
Shape(blocs) ==
    [i \in 1..Len(blocs) |->
        [type |-> blocs[i].type,
         items |-> Get(blocs[i], "items", <<>>),
         texts |-> [j \in 1..Len(Get(blocs[i], "runs", <<>>)) |-> blocs[i].runs[j].text],
         rows |-> [r \in 1..Len(Get(blocs[i], "rows", <<>>)) |->
                     [c \in 1..Len(blocs[i].rows[r]) |-> Shape(blocs[i].rows[r][c])]]]]

\* C8: for every block list the reader produced, generer_export_docx returns
\* a document, and its body read back has the block types, the block order,
\* the list items and the run texts of the original.
C8_RoundTrip ==
    /\ ~(rn_read /\ rn_pc = "raised")
    /\ (rn_read /\ rn_pc = "reread") => Shape(rn_reread) = Shape(rn_structure)

----------------------------------------------------------------------------
(* C9: the two sections of the batch export.                               *)

\* The positions in resultats of the records with status == "succeeded"
\* (want = TRUE) or of all the others (want = FALSE), in input order.
RecordsWhere(want) ==
    SelectSeq([i \in 1..Len(resultats) |-> i],
              LAMBDA i : (Get(resultats[i], "status", <<>>) = S_succeeded) = want)

\* The sections and records of a rendering, in document order
Sections(trace) == [e \in 1..Len(trace) |-> <<trace[e].sec, trace[e].idx>>]

\* What the claim says is rendered: the succeeded records in the main body,
\* then, if and only if some record is not succeeded, the page break with
\* the appendix heading and the other records.
ClaimedSections ==
    [e \in 1..Len(RecordsWhere(TRUE)) |-> <<"main", RecordsWhere(TRUE)[e]>>]
    \o (IF RecordsWhere(FALSE) = <<>> THEN <<>> ELSE <<<<"break", 0>>>>)
    \o [e \in 1..Len(RecordsWhere(FALSE)) |-> <<"appendix", RecordsWhere(FALSE)[e]>>]

\* C9: when generer_export_docx_batch has ended, every record was rendered
\* exactly once: the succeeded ones in the main body in input order, the
\* others in the appendix in input order, after the page break and heading
\* that are there if and only if some record is not succeeded.
C9_EveryRecordOnce ==
    bt_pc \in {"returned", "raised"} =>
        /\ Sections(bt_trace) = ClaimedSections
        /\ \A e \in 1..(Len(bt_trace) - 1) : bt_trace[e].at < bt_trace[e + 1].at

----------------------------------------------------------------------------
(* C10: the Structured Renderer propagates no failure.                     *)

\* C10: for every block list generer_export_docx raises nothing, and the
\* stream it returns holds the document and is positioned at offset 0.
C10_NeverPropagates ==
    /\ rn_pc # "raised"
    /\ rn_pc \in {"returned", "reread"} =>
         rn_output.returned /\ rn_output.pos = 0 /\ rn_output.doc = rn_doc

----------------------------------------------------------------------------
(* C11: a null field of the per-run style.                                 *)

\* The fields the per-run style of the call has with a null value
NullFields == {k \in DOMAIN CallOverride : CallOverride[k] = PyNone}

\* C11: when _appliquer_style_run has styled a run whose per-run style has a
\* field that is null, the field counts as absent: the run has the base
\* style's font name, size and colour, and is_bold / is_italic are the base
\* style's value, or false when the base has none.
C11_NullInherits ==
    (sm_pc = "applied" /\ sm_fn = "_appliquer_style_run") =>
        /\ ("font_name" \in NullFields
            /\ Get(CallBase, "font_name", PyNone) = PyStr(S_Arial))
           => sm_font.name = PyStr(S_Arial)
        /\ ("font_size" \in NullFields
            /\ Get(CallBase, "font_size", PyNone) = PyNum(12))
           => sm_font.size = PyNum(12)
        /\ ("font_color_rgb" \in NullFields
            /\ Get(CallBase, "font_color_rgb", PyNone) = PyStr(S_FF0000))
           => sm_font.color = PyStr(S_FF0000)
        /\ "is_bold" \in NullFields
           => sm_font.bold = Get(CallBase, "is_bold", PyBool(FALSE))
        /\ "is_italic" \in NullFields
           => sm_font.italic = Get(CallBase, "is_italic", PyBool(FALSE))

----------------------------------------------------------------------------
(* C12: a list whose item holds a nested list.                             *)

\* The inline text of an item without the text of its nested lists
OwnText(li) ==
    ConcatAll([i \in 1..Len(li.children) |->
        IF li.children[i].k = "tag" /\ li.children[i].name \in {N_ul, N_ol}
        THEN <<>> ELSE GetText(li.children[i])])

RECURSIVE ClaimedItems(_)
\* What the claim says a list renders to: per item, parent before nested, one
\* paragraph <<style, text>> of the style of its list with the item's own text
ClaimedItems(list) ==
    ConcatAll([i \in 1..Len(FindAllDirect(list, {N_li})) |->
        << <<IF list.name = N_ul THEN S_ListBullet ELSE S_ListNumber,
             OwnText(FindAllDirect(list, {N_li})[i])>> >>
        \o ConcatAll([j \in 1..Len(FindAllDirect(FindAllDirect(list, {N_li})[i],
                                                 {N_ul, N_ol})) |->
              ClaimedItems(FindAllDirect(FindAllDirect(list, {N_li})[i],
                                         {N_ul, N_ol})[j])])])

\* The paragraphs add_markdown added, as <<style, text>>
AddedParagraphs ==
    [i \in 1..(Len(md_doc) - Len(md_doc0)) |->
        <<md_doc[Len(md_doc0) + i].style[1], ParagraphText(md_doc[Len(md_doc0) + i])>>]

\* add_markdown has rendered markup that is made of lists only
ListsRendered ==
    /\ md_pc = "returned" /\ md_error = "none"
    /\ md_parsed.body # PyNone
    /\ BodyElements(md_parsed) # <<>>
    /\ \A e \in 1..Len(BodyElements(md_parsed)) :
          BodyElements(md_parsed)[e].name \in {N_ul, N_ol}

\* C12: every item of a rendered list, at every nesting level, gives exactly
\* one list-styled paragraph, the parent before its nested items, and the
\* paragraph of an item holds the item's own text, not that of its nested
\* list: no text is rendered twice.
C12_NestedListOnce ==
    ListsRendered =>
        AddedParagraphs =
            ConcatAll([e \in 1..Len(BodyElements(md_parsed)) |->
                          ClaimedItems(BodyElements(md_parsed)[e])])

====
